---- MODULE Spec2Model ----
(***************************************************************************)
(* Dialogue-state engine of the sales assistant (src/agent.py) with its    *)
(* short-term memory (src/memory_utils.py) and the catalog / customer-lead *)
(* lookups it calls (src/db_utils.py).                                     *)
(*                                                                         *)
(* Optional values are one-element tuples: NULL is Python's None and       *)
(* Some(v) is a present value v.  A response is a pair <<template, key>>;  *)
(* a car is its row number in the catalog.                                 *)
(***************************************************************************)
EXTENDS Integers, Sequences, FiniteSets, TLC

NULL == << >>
Some(v) == << v >>
Get(o) == o[1]

(***************************************************************************)
(* Bounds of the exploration.                                              *)
(***************************************************************************)
\* number of calls (the proactive start, then process_message turns) explored
\* in one conversation
MaxTurns == 3
\* number of process_message turns explored in a conversation over the few
\* kinds of message of LongInputs
MaxLongTurns == 5
\* number of process_message turns explored in a conversation of questions
\* and answers (the messages of AskInputs)
MaxAskTurns == 8
\* number of process_message turns explored with the request to the
\* extractor observed
MaxExtractTurns == 4
\* longest memory list handed to _extract_entities_llm on its own
MaxGateMem == 2
\* number of add_message / clear_memory calls explored on a bare MemoryManager
MaxMemOps == 6
\* largest max_turns a bare MemoryManager is built with
MaxMemTurns == 2

(***************************************************************************)
(* Program constants.                                                      *)
(***************************************************************************)
\* MemoryManager(max_turns=3), agent.py:94
AgentMaxTurns == 3
\* limit=5 of the search / list_all / find_similar lookups
SearchLimit == 5
\* limit=3 of the clarify_model lookup
ClarifyLimit == 3
\* tolerance 0.15 of find_similar, in percent
TolerancePct == 15
\* limit=3 of the search of the proactive start
ProactiveLimit == 3

(***************************************************************************)
(* The catalog (table cars) and the customer leads.                        *)
(***************************************************************************)
Catalog == <<
  [brand |-> "Toyota", model |-> "Corolla", engine_type |-> "Benzin",
   body_type |-> "Sedan", transmission |-> "Otomatik", year |-> 2020, price |-> 600],
  [brand |-> "Honda", model |-> "Civic", engine_type |-> "Elektrik",
   body_type |-> "Sedan", transmission |-> "Otomatik", year |-> 2022, price |-> 650],
  [brand |-> "Toyota", model |-> "Sport", engine_type |-> "Elektrik",
   body_type |-> "SUV", transmission |-> "Manuel", year |-> 2021, price |-> 700],
  [brand |-> "Honda", model |-> "Sport", engine_type |-> "Benzin",
   body_type |-> "SUV", transmission |-> "Otomatik", year |-> 2019, price |-> 900] >>

CarIds == 1..Len(Catalog)

\* three leads: one asks for a car of the catalog, one for a car the catalog
\* does not have, one in words that name no brand and no feature
Leads == <<
  [id |-> 1, first_name |-> "Ali",
   phone |-> << "0", "5", "3", "2", "1", "2", "3", "4", "5", "6", "7" >>,
   desired_car_info |-> << "T", "o", "y", "o", "t", "a", " ", "C", "o", "r", "o", "l", "l", "a" >>],
  [id |-> 2, first_name |-> "Ayse",
   phone |-> << "0", "5", "4", "4", "1", "1", "1", "2", "2", "3", "3" >>,
   desired_car_info |-> << "t", "o", "y", "o", "t", "a", " ", "y", "a", "r", "i", "s", " ", "o", "t", "o", "m", "a", "t", "i", "k" >>],
  [id |-> 3, first_name |-> "Can",
   phone |-> << "0", "5", "4", "6", "1", "1", "1", "2", "2", "3", "3" >>,
   desired_car_info |-> << "a", "i", "l", "e", " ", "a", "r", "a", "c", "i" >>] >>

FilterKeys == {"brand", "model", "engine_type", "body_type", "transmission",
               "price", "year", "min_price", "max_price", "min_year", "max_year"}

StrKeys == {"brand", "model", "engine_type", "body_type", "transmission"}

\* FILTER_QUESTIONS in priority order: <<filter key, asked flag>>
FILTER_QUESTIONS == <<
  <<"brand", "asked_brand">>, <<"engine_type", "asked_engine">>,
  <<"body_type", "asked_body">>, <<"price_range", "asked_price">>,
  <<"transmission", "asked_transmission">>, <<"year_range", "asked_year">>,
  <<"model", "asked_model">> >>

AskedFlag(qkey) ==
  LET i == CHOOSE j \in 1..Len(FILTER_QUESTIONS) : FILTER_QUESTIONS[j][1] = qkey
  IN FILTER_QUESTIONS[i][2]

QuestionKeys == {FILTER_QUESTIONS[j][1] : j \in 1..Len(FILTER_QUESTIONS)}

SEARCH_TRIGGER_FIELDS == {"brand", "model", "engine_type", "body_type", "transmission", "year"}

Resp(tpl, key) == << tpl, key >>

(***************************************************************************)
(* Text.  A Python str is the sequence of its characters; the operators    *)
(* below are the str methods and regular expressions the normalizers use.  *)
(***************************************************************************)
Digits == << "0", "1", "2", "3", "4", "5", "6", "7", "8", "9" >>

IsDigit(c) == \E i \in DOMAIN Digits : Digits[i] = c

DigitValue(c) == (CHOOSE i \in DOMAIN Digits : Digits[i] = c) - 1

UpperCase == << "A", "B", "C", "D", "E", "F", "G", "H", "I", "J", "K", "L", "M",
                "N", "O", "P", "Q", "R", "S", "T", "U", "V", "W", "X", "Y", "Z" >>
LowerCase == << "a", "b", "c", "d", "e", "f", "g", "h", "i", "j", "k", "l", "m",
                "n", "o", "p", "q", "r", "s", "t", "u", "v", "w", "x", "y", "z" >>

LowerChar(c) ==
  IF \E i \in DOMAIN UpperCase : UpperCase[i] = c
  THEN LowerCase[CHOOSE i \in DOMAIN UpperCase : UpperCase[i] = c]
  ELSE c

UpperChar(c) ==
  IF \E i \in DOMAIN LowerCase : LowerCase[i] = c
  THEN UpperCase[CHOOSE i \in DOMAIN LowerCase : LowerCase[i] = c]
  ELSE c

IsLetter(c) == LowerChar(c) # c \/ UpperChar(c) # c

\* [A-Za-z0-9]
IsAlnum(c) == IsLetter(c) \/ IsDigit(c)

\* \w
IsWordChar(c) == IsAlnum(c) \/ c = "_"

\* str.lower()
str_lower(s) == [i \in 1..Len(s) |-> LowerChar(s[i])]

\* str.title(): a letter is upper-cased after a non-letter and lower-cased
\* after a letter
str_title(s) ==
  [i \in 1..Len(s) |->
     IF i > 1 /\ IsLetter(s[i - 1]) THEN LowerChar(s[i]) ELSE UpperChar(s[i])]

\* len(s.split())
WordCount(s) ==
  Cardinality({i \in 1..Len(s) : s[i] # " " /\ (i = 1 \/ s[i - 1] = " ")})

\* \b between positions i and i + 1 of s (i = 0: the start, i = Len(s): the end)
WordBoundary(s, i) ==
  (i >= 1 /\ IsWordChar(s[i])) # (i < Len(s) /\ IsWordChar(s[i + 1]))

OccursAt(s, pat, i) ==
  i + Len(pat) - 1 <= Len(s) /\ SubSeq(s, i, i + Len(pat) - 1) = pat

\* `pat in s`
str_contains(s, pat) == \E i \in 1..Len(s) : OccursAt(s, pat, i)

\* s.index(pat), for a pat that occurs in s
str_index(s, pat) ==
  CHOOSE i \in 1..Len(s) : OccursAt(s, pat, i) /\ \A j \in 1..(i - 1) : ~OccursAt(s, pat, j)

\* re.search(r'\b' + re.escape(pat) + r'\b', s)
re_search_word(s, pat) ==
  \E i \in 1..Len(s) :
     OccursAt(s, pat, i) /\ WordBoundary(s, i - 1) /\ WordBoundary(s, i + Len(pat) - 1)

RECURSIVE RemoveFrom(_, _, _)
RemoveFrom(s, pat, i) ==
  IF i > Len(s) THEN << >>
  ELSE IF OccursAt(s, pat, i) THEN RemoveFrom(s, pat, i + Len(pat))
  ELSE << s[i] >> \o RemoveFrom(s, pat, i + 1)

\* s.replace(pat, ''): the occurrences from left to right, not overlapping
str_remove(s, pat) == RemoveFrom(s, pat, 1)

\* re.sub(r'[...]', '', s) for a class of characters
re_sub_chars(s, chars) == SelectSeq(s, LAMBDA c : c \notin chars)

\* re.sub(r'\D', '', s)
re_sub_nondigits(s) == SelectSeq(s, IsDigit)

\* str.strip()
str_strip(s) ==
  LET inked == {i \in 1..Len(s) : s[i] # " "}
  IN IF inked = {} THEN << >>
     ELSE SubSeq(s, CHOOSE i \in inked : \A j \in inked : i <= j,
                    CHOOSE i \in inked : \A j \in inked : i >= j)

\* re.search(r'(\d+)', s): the first run of digits, at its full length
re_search_digits(s) ==
  LET at == {i \in 1..Len(s) : IsDigit(s[i])}
  IN IF at = {} THEN NULL
     ELSE LET a == CHOOSE i \in at : \A j \in at : i <= j
              ends == {j \in a..Len(s) : \A k \in a..j : IsDigit(s[k])}
          IN Some(SubSeq(s, a, CHOOSE j \in ends : \A k \in ends : j >= k))

RECURSIVE to_int(_)
\* int() of a string of digits
to_int(ds) ==
  IF ds = << >> THEN 0
  ELSE to_int(SubSeq(ds, 1, Len(ds) - 1)) * 10 + DigitValue(ds[Len(ds)])

(***************************************************************************)
(* _normalize_phone: the digits of the text, if there are 10 to 13 of them *)
(***************************************************************************)
\* agent.py:291
PhoneMinDigits == 10
\* agent.py:291
PhoneMaxDigits == 13

normalize_phone(phone_str) ==
  IF phone_str = NULL THEN NULL
  ELSE IF PhoneMinDigits <= Len(re_sub_nondigits(Get(phone_str)))
          /\ Len(re_sub_nondigits(Get(phone_str))) <= PhoneMaxDigits
  THEN Some(re_sub_nondigits(Get(phone_str)))
  ELSE NULL

(***************************************************************************)
(* _parse_desired_car_info: filters read from a lead's free text           *)
(***************************************************************************)
\* the brands and models by their letters
Spelling ==
  [Toyota |-> << "T", "o", "y", "o", "t", "a" >>,
   Honda |-> << "H", "o", "n", "d", "a" >>,
   Corolla |-> << "C", "o", "r", "o", "l", "l", "a" >>,
   Civic |-> << "C", "i", "v", "i", "c" >>,
   Sport |-> << "S", "p", "o", "r", "t" >>,
   Yaris |-> << "Y", "a", "r", "i", "s" >>]

\* the name spelled by chars
Word(chars) == CHOOSE w \in DOMAIN Spelling : Spelling[w] = chars

\* SELECT DISTINCT brand ... ORDER BY brand over the catalog
DistinctBrands == << "Honda", "Toyota" >>

get_distinct_brands(dbok) == IF dbok THEN DistinctBrands ELSE << >>

\* len(potential_model) < 25, agent.py:858
ModelMaxLen == 25
\* len(potential_model.split()) < 4, agent.py:858
ModelMaxWords == 4

ParsedKeys == {"brand", "model", "engine_type", "body_type", "transmission"}

NoParsedFilters == [k \in ParsedKeys |-> NULL]

\* the first brand of the list that stands as a word in the text
BrandInText(info_lower, brands) ==
  LET hits == {i \in 1..Len(brands) :
                 re_search_word(info_lower, str_lower(Spelling[brands[i]]))}
  IN IF hits = {} THEN NULL
     ELSE Some(brands[CHOOSE i \in hits : \A j \in hits : i <= j])

IsModelChar(c) == IsAlnum(c) \/ c = "-" \/ c = " "

\* re.search(r'^([A-Za-z0-9][A-Za-z0-9\-\s]+?)(?:\s+|\b|$)', text): the
\* shortest prefix of two or more characters that ends before white space,
\* at a word boundary or at the end
re_match_model(text) ==
  LET ends == {j \in 2..Len(text) :
                 /\ IsAlnum(text[1])
                 /\ \A k \in 2..j : IsModelChar(text[k])
                 /\ (j = Len(text) \/ text[j + 1] = " " \/ WordBoundary(text, j))}
  IN IF ends = {} THEN NULL
     ELSE Some(SubSeq(text, 1, CHOOSE j \in ends : \A k \in ends : j <= k))

AcceptedModel(potential_model) ==
  IF Len(potential_model) < ModelMaxLen /\ WordCount(potential_model) < ModelMaxWords
  THEN Some(Word(potential_model))
  ELSE NULL

ModelOfMatch(model_match) ==
  IF model_match = NULL THEN NULL
  ELSE AcceptedModel(str_title(str_strip(Get(model_match))))

\* the model: what follows the brand's first occurrence
ModelAfterBrand(desired_info, found_brand) ==
  ModelOfMatch(re_match_model(str_strip(
    SubSeq(desired_info, str_index(str_lower(desired_info), found_brand) + Len(found_brand),
           Len(desired_info)))))

EngineInText(info_lower) ==
  IF str_contains(info_lower, << "e", "l", "e", "k", "t", "r", "i", "k" >>) THEN Some("Elektrik")
  ELSE IF str_contains(info_lower, << "d", "i", "z", "e", "l" >>) THEN Some("Dizel")
  ELSE IF str_contains(info_lower, << "b", "e", "n", "z", "i", "n" >>) THEN Some("Benzin")
  ELSE IF str_contains(info_lower, << "h", "i", "b", "r", "i", "t" >>) THEN Some("Hibrit")
  ELSE NULL

BodyInText(info_lower) ==
  IF str_contains(info_lower, << "s", "u", "v" >>) THEN Some("SUV")
  ELSE IF str_contains(info_lower, << "s", "e", "d", "a", "n" >>) THEN Some("Sedan")
  ELSE IF str_contains(info_lower, << "h", "a", "t", "c", "h", "b", "a", "c", "k" >>) \/ str_contains(info_lower, << "h", "b" >>)
  THEN Some("Hatchback")
  ELSE NULL

TransmissionInText(info_lower) ==
  IF str_contains(info_lower, << "o", "t", "o", "m", "a", "t", "i", "k" >>) THEN Some("Otomatik")
  ELSE IF str_contains(info_lower, << "m", "a", "n", "u", "e", "l" >>) THEN Some("Manuel")
  ELSE NULL

ParsedFilters(desired_info, info_lower, found) ==
  [brand |-> IF found # NULL THEN Some(Word(str_title(Spelling[Get(found)]))) ELSE NULL,
   model |-> IF found # NULL
             THEN ModelAfterBrand(desired_info, str_lower(Spelling[Get(found)]))
             ELSE NULL,
   engine_type |-> EngineInText(info_lower),
   body_type |-> BodyInText(info_lower),
   transmission |-> TransmissionInText(info_lower)]

\* the parsed filters, NULL where the dict has no key
parse_desired_car_info(desired_info, brands) ==
  IF desired_info = NULL \/ Get(desired_info) = << >> THEN NoParsedFilters
  ELSE ParsedFilters(Get(desired_info), str_lower(Get(desired_info)),
                     BrandInText(str_lower(Get(desired_info)), brands))

(***************************************************************************)
(* _parse_price.  A value the extractor gave for a price is None, a number *)
(* (whole part and tenths; int() keeps the whole part) or a string.        *)
(***************************************************************************)
\* multiplier of 'milyon', agent.py:310
Million == 1000000
\* multiplier of 'bin' and 'k', agent.py:313
Thousand == 1000

NoneValue == [kind |-> "none"]
Number(whole, tenths) == [kind |-> "number", whole |-> whole, tenths |-> tenths]
Str(chars) == [kind |-> "str", chars |-> chars]

\* lower-cased, 'tl' and 'try' removed, then commas and dots, then stripped
CleanPrice(chars) ==
  str_strip(re_sub_chars(str_remove(str_remove(str_lower(chars), << "t", "l" >>),
                                    << "t", "r", "y" >>),
                         {",", "."}))

\* the first run of digits of what is left, times the multiplier
ScaledNumber(chars, multiplier) ==
  IF re_search_digits(str_strip(chars)) # NULL
  THEN Some(to_int(Get(re_search_digits(str_strip(chars)))) * multiplier)
  ELSE NULL

PriceOfCleaned(chars) ==
  IF str_contains(chars, << "m", "i", "l", "y", "o", "n" >>)
  THEN ScaledNumber(str_remove(chars, << "m", "i", "l", "y", "o", "n" >>), Million)
  ELSE IF str_contains(chars, << "b", "i", "n" >>) \/ str_contains(chars, << "k" >>)
  THEN ScaledNumber(str_remove(str_remove(chars, << "b", "i", "n" >>), << "k" >>), Thousand)
  ELSE ScaledNumber(chars, 1)

parse_price(price_val) ==
  IF price_val.kind = "none" THEN NULL
  ELSE IF price_val.kind = "number" THEN Some(price_val.whole)
  ELSE PriceOfCleaned(CleanPrice(price_val.chars))

VARIABLES
  current_context,          \* AIAgent.current_context
  memory,                   \* AIAgent.memory_manager.memory
  updated_keys_this_turn,   \* AIAgent.updated_keys_this_turn
  turns,                    \* number of turns processed so far
  last_turn,                \* what the last call did: its input, route, actions, lookups, result;
                            \* lead: the lead of the latest proactive start, 0 if none;
                            \* searched: search_ran when the call began; prev: the call before
  max_messages,             \* MemoryManager.max_messages
  mem_added,                \* the non-empty messages added since the last clear_memory
  mem_ops,                  \* number of calls made on a bare MemoryManager
  parsed,                   \* the last call of a normalizer or of the extractor: function, argument, result
  search_ran                \* a catalog search has run since the filters last changed
                            \* or the context was reset

vars == << current_context, memory, updated_keys_this_turn, turns, last_turn,
           max_messages, mem_added, mem_ops, parsed, search_ran >>

(***************************************************************************)
(* _reset_context: the fresh context.                                      *)
(***************************************************************************)
EmptyFilters == [k \in FilterKeys |-> NULL]

FreshContext ==
  [ filters |-> EmptyFilters,
    asked_questions |-> {},
    last_question_key |-> NULL,
    search_performed |-> FALSE,
    results_shown |-> FALSE,
    last_acknowledged_info |-> {},
    customer_id |-> NULL,
    customer_first_name |-> NULL,
    customer_phone |-> NULL,
    customer_desired_car |-> NULL,
    initial_personalized_greeting_done |-> FALSE,
    asked_for_customer_info |-> FALSE,
    last_response |-> NULL,
    last_shown_cars |-> NULL,
    last_shown_target_price |-> NULL,
    last_shown_target_model |-> NULL,
    last_shown_target_brand |-> NULL,
    awaiting_model_confirmation |-> FALSE,
    potential_model_matches |-> NULL ]

(***************************************************************************)
(* MemoryManager (src/memory_utils.py).  A message is [role, content]; the *)
(* content of a user message is <<text>>, of an assistant message the      *)
(* response.  `not content` holds for None and for the empty string.       *)
(***************************************************************************)
IsEmptyContent(content) == content = NULL \/ content = << "" >>

DropOldest_KeepsOldest(mem, max_msgs) ==
  IF Len(mem) > max_msgs THEN SubSeq(mem, 1, max_msgs) ELSE mem

DropOldest(mem, max_msgs) ==
  IF Len(mem) > max_msgs
  THEN SubSeq(mem, Len(mem) - max_msgs + 1, Len(mem))
  ELSE mem

add_message(mem, max_msgs, role, content) ==
  IF IsEmptyContent(content) THEN mem
  ELSE DropOldest(Append(mem, [role |-> role, content |-> content]), max_msgs)

clear_memory(mem) == << >>

reset_context_KeepsMemory(mem) == [ctx |-> FreshContext, mem |-> mem]

\* _reset_context: a fresh context, and the memory cleared
reset_context(mem) == [ctx |-> FreshContext, mem |-> clear_memory(mem)]

AgentMaxMessages == AgentMaxTurns * 2

(***************************************************************************)
(* Lookups (src/db_utils.py).  dbok = FALSE is a failing database: every   *)
(* lookup catches the error and returns its empty result.                  *)
(***************************************************************************)
Min2(a, b) == IF a < b THEN a ELSE b

Take(seq, n) == SubSeq(seq, 1, Min2(n, Len(seq)))

CarMatches(c, filters) ==
  /\ \A k \in StrKeys : filters[k] # NULL /\ filters[k] # << "" >> => Catalog[c][k] = Get(filters[k])
  /\ filters["price"] # NULL => Catalog[c].price = Get(filters["price"])
  /\ filters["year"] # NULL => Catalog[c].year = Get(filters["year"])
  /\ filters["min_price"] # NULL => Catalog[c].price >= Get(filters["min_price"])
  /\ filters["max_price"] # NULL => Catalog[c].price <= Get(filters["max_price"])
  /\ filters["min_year"] # NULL => Catalog[c].year >= Get(filters["min_year"])
  /\ filters["max_year"] # NULL => Catalog[c].year <= Get(filters["max_year"])

\* ORDER BY price ASC (the catalog's prices are pairwise different)
SortByPrice(S) ==
  [i \in 1..Cardinality(S) |->
     CHOOSE c \in S : Cardinality({d \in S : Catalog[d].price < Catalog[c].price}) = i - 1]

find_cars_by_criteria(filters, limit, dbok) ==
  IF ~dbok THEN << >>
  ELSE Take(SortByPrice({c \in CarIds : CarMatches(c, filters)}), limit)

Abs(x) == IF x < 0 THEN -x ELSE x

\* ORDER BY abs(price - target); equal distances are ordered by price
SortByDistance(S, target) ==
  LET Before(d, c) ==
        \/ Abs(Catalog[d].price - target) < Abs(Catalog[c].price - target)
        \/ /\ Abs(Catalog[d].price - target) = Abs(Catalog[c].price - target)
           /\ Catalog[d].price < Catalog[c].price
  IN [i \in 1..Cardinality(S) |->
        CHOOSE c \in S : Cardinality({d \in S : Before(d, c)}) = i - 1]

InPriceWindow_AnyPrice(price, target) == price >= 0 /\ target >= 0

\* Decimal(0.15) is the binary double nearest to 0.15, which is below 0.15:
\* the window is target * (0.85 + e) .. target * (1.15 - e) for a tiny e > 0,
\* so for a positive target both ends are strict.
InPriceWindow(price, target) ==
  IF target > 0
  THEN 100 * price > (100 - TolerancePct) * target /\ 100 * price < (100 + TolerancePct) * target
  ELSE price = target

find_similar_priced_cars(target_price, exclude_brand, exclude_model, limit, dbok) ==
  IF ~dbok THEN << >>
  ELSE Take(SortByDistance(
         {c \in CarIds :
            /\ InPriceWindow(Catalog[c].price, target_price)
            /\ ~(Catalog[c].brand = exclude_brand /\ Catalog[c].model = exclude_model)},
         target_price), limit)

\* the lead stored under the phone: its index in Leads, or 0
find_customer_lead_by_phone(phone, dbok) ==
  IF dbok /\ \E i \in 1..Len(Leads) : Leads[i].phone = phone
  THEN CHOOSE i \in 1..Len(Leads) : Leads[i].phone = phone
  ELSE 0

(***************************************************************************)
(* Normalized entities of one turn.  Filter fields and first_name are NULL *)
(* when the key is absent.  `phone` can be present with value None (the    *)
(* normalizer stores _normalize_phone's result whenever the extractor gave *)
(* a phone_number), hence has_phone.  source tells the two extractors      *)
(* apart: the LLM path always carries the six intent keys, the keyword     *)
(* fallback only the keys it detected.                                     *)
(***************************************************************************)
EntityFilterKeys == {"brand", "model", "engine_type", "body_type", "transmission",
                     "min_price", "max_price", "min_year", "max_year"}

FlagKeys == {"is_greeting", "is_reset", "is_farewell", "is_list_all", "is_similarity_request"}

NoEntities ==
  [ f |-> [k \in EntityFilterKeys |-> NULL],
    first_name |-> NULL, has_phone |-> FALSE, phone |-> NULL,
    confirmation |-> NULL, flags |-> {}, source |-> "llm" ]

\* The keyword fallback reads price_match_large, which is bound only when
\* the message has no "<digits> bin" / "<digits> k" price: on a message with
\* such a price it raises UnboundLocalError and yields no entities at all.
ExtractionRaises(e) == e.source = "fallback_error"

\* `not entities`: the dict has no key at all
IsEmptyDict(e) ==
  /\ e.source = "fallback"
  /\ \A k \in EntityFilterKeys : e.f[k] = NULL
  /\ e.first_name = NULL /\ ~e.has_phone /\ e.confirmation = NULL /\ e.flags = {}

(***************************************************************************)
(* _update_context_with_entities                                           *)
(***************************************************************************)
QKeyBase(k) ==
  IF k \in {"min_price", "max_price"} THEN "price_range"
  ELSE IF k \in {"min_year", "max_year"} THEN "year_range"
  ELSE k

ChangedFilterKeys_NullOverwrites(ctx, e) ==
  {k \in EntityFilterKeys : ctx.filters[k] # e.f[k]}

\* the filter keys whose entity value is present and differs from the stored one
ChangedFilterKeys(ctx, e) ==
  {k \in EntityFilterKeys : e.f[k] # NULL /\ ctx.filters[k] # e.f[k]}

BrandChangeResetsModel_Never(before_brand, new_brand, model_after_loop) == FALSE

\* "Reset model if brand changes" (the model filter and its asked flag)
BrandChangeResetsModel(before_brand, new_brand, model_after_loop) ==
  /\ new_brand # NULL /\ new_brand # << "" >>
  /\ new_brand # before_brand
  /\ model_after_loop # NULL

\* result: [ctx, updated, keys]; keys is updated_keys_this_turn as the call leaves it
update_context_with_entities(ctx, keys_in, e) ==
  IF IsEmptyDict(e) THEN [ctx |-> ctx, updated |-> FALSE, keys |-> keys_in]
  ELSE
    LET nameChanged  == e.first_name # NULL /\ ctx.customer_first_name # e.first_name
        phoneChanged == e.has_phone /\ ctx.customer_phone # e.phone
        changed == ChangedFilterKeys(ctx, e)
        f1 == [k \in FilterKeys |-> IF k \in changed THEN e.f[k] ELSE ctx.filters[k]]
        asked1 == ctx.asked_questions \cup {AskedFlag(QKeyBase(k)) : k \in changed}
        reset == BrandChangeResetsModel(ctx.filters["brand"], f1["brand"], f1["model"])
        f2 == IF reset THEN [f1 EXCEPT !["model"] = NULL] ELSE f1
        asked2 == IF reset THEN asked1 \ {AskedFlag("model")} ELSE asked1
        updated == nameChanged \/ phoneChanged \/ changed # {} \/ reset
        keys == changed \cup (IF nameChanged THEN {"first_name"} ELSE {})
                        \cup (IF phoneChanged THEN {"phone"} ELSE {})
        c1 == [ctx EXCEPT
                 !.customer_first_name = IF nameChanged THEN e.first_name ELSE @,
                 !.customer_phone = IF phoneChanged THEN e.phone ELSE @,
                 !.filters = f2,
                 !.asked_questions = asked2,
                 !.last_acknowledged_info = IF updated THEN changed ELSE {},
                 !.search_performed = IF updated THEN FALSE ELSE @,
                 !.results_shown = IF updated THEN FALSE ELSE @]
    IN [ctx |-> c1, updated |-> updated, keys |-> keys]

(***************************************************************************)
(* _should_search                                                          *)
(***************************************************************************)
should_search_IgnoresYearRange(ctx) ==
  \/ \E k \in SEARCH_TRIGGER_FIELDS : ctx.filters[k] # NULL
  \/ ctx.filters["min_price"] # NULL \/ ctx.filters["max_price"] # NULL

should_search(ctx) ==
  \/ \E k \in SEARCH_TRIGGER_FIELDS : ctx.filters[k] # NULL
  \/ ctx.filters["min_price"] # NULL \/ ctx.filters["max_price"] # NULL
  \/ ctx.filters["min_year"] # NULL \/ ctx.filters["max_year"] # NULL

(***************************************************************************)
(* _get_next_question: the key of the first question to ask, or NULL       *)
(***************************************************************************)
NeedsAsking(ctx, qkey) ==
  IF qkey = "price_range"
  THEN ctx.filters["min_price"] = NULL /\ ctx.filters["max_price"] = NULL
  ELSE IF qkey = "year_range"
  THEN ctx.filters["min_year"] = NULL /\ ctx.filters["max_year"] = NULL
  ELSE IF qkey = "model"
  THEN ctx.filters["brand"] # NULL /\ ctx.filters["model"] = NULL
  ELSE ctx.filters[qkey] = NULL

Askable_IgnoresAskedFlags(ctx) ==
  {i \in 1..Len(FILTER_QUESTIONS) : NeedsAsking(ctx, FILTER_QUESTIONS[i][1])}

Askable(ctx) ==
  {i \in 1..Len(FILTER_QUESTIONS) :
     /\ FILTER_QUESTIONS[i][2] \notin ctx.asked_questions
     /\ NeedsAsking(ctx, FILTER_QUESTIONS[i][1])}

get_next_question(ctx) ==
  IF Askable(ctx) = {} THEN NULL
  ELSE Some(FILTER_QUESTIONS[CHOOSE i \in Askable(ctx) : \A j \in Askable(ctx) : i <= j][1])

(***************************************************************************)
(* _execute_action.  Result: [ctx, executed, lookups, raised].  executed   *)
(* lists the branches that ran (a search can hand over to clarify_model or *)
(* to ask), lookups the database calls made, raised tells that the call    *)
(* left through an exception.                                              *)
(***************************************************************************)
Lookup(op, filters) == [op |-> op, filters |-> filters]

ClearAnchor(ctx) ==
  [ctx EXCEPT !.last_shown_cars = NULL, !.last_shown_target_price = NULL,
              !.last_shown_target_model = NULL, !.last_shown_target_brand = NULL]

ExecPrologue_WaitKeepsAnchor(ctx, action) ==
  LET c1 == IF action # "handle_model_confirmation"
            THEN [ctx EXCEPT !.search_performed = FALSE, !.results_shown = FALSE]
            ELSE ctx
      c2 == IF action \notin {"find_similar", "wait"} THEN ClearAnchor(c1) ELSE c1
  IN IF action \notin {"clarify_model", "handle_model_confirmation"}
     THEN [c2 EXCEPT !.potential_model_matches = NULL, !.awaiting_model_confirmation = FALSE]
     ELSE c2

\* the three resets at the head of _execute_action
ExecPrologue(ctx, action) ==
  LET c1 == IF action # "handle_model_confirmation"
            THEN [ctx EXCEPT !.search_performed = FALSE, !.results_shown = FALSE]
            ELSE ctx
      c2 == IF action # "find_similar" THEN ClearAnchor(c1) ELSE c1
  IN IF action \notin {"clarify_model", "handle_model_confirmation"}
     THEN [c2 EXCEPT !.potential_model_matches = NULL, !.awaiting_model_confirmation = FALSE]
     ELSE c2

SearchRedirect_NeverClarifies(ctx) ==
  IF \A k \in FilterKeys : ctx.filters[k] = NULL THEN "ask" ELSE "search"

\* what the search branch turns the action into
SearchRedirect(ctx) ==
  IF ctx.filters["model"] # NULL /\ ctx.filters["model"] # << "" >>
     /\ (ctx.filters["brand"] = NULL \/ ctx.filters["brand"] = << "" >>)
  THEN "clarify_model"
  ELSE IF \A k \in FilterKeys : ctx.filters[k] = NULL THEN "ask"
  ELSE "search"

DoSearch_AnchorsLastHit(ctx, dbok) ==
  LET found == find_cars_by_criteria(ctx.filters, SearchLimit, dbok)
  IN IF found # << >>
     THEN [ctx |-> [ctx EXCEPT !.search_performed = TRUE, !.results_shown = TRUE,
                               !.last_shown_cars = found,
                               !.last_shown_target_price = Some(Catalog[found[Len(found)]].price),
                               !.last_shown_target_model = Some(Catalog[found[Len(found)]].model),
                               !.last_shown_target_brand = Some(Catalog[found[Len(found)]].brand)],
           response |-> Resp("show_results", "")]
     ELSE [ctx |-> [ctx EXCEPT !.search_performed = TRUE, !.results_shown = FALSE],
           response |-> Resp("no_results", "")]

\* the catalog lookup of the search branch: [ctx, response]
DoSearch(ctx, dbok) ==
  LET found == find_cars_by_criteria(ctx.filters, SearchLimit, dbok)
  IN IF found # << >>
     THEN [ctx |-> [ctx EXCEPT !.search_performed = TRUE, !.results_shown = TRUE,
                               !.last_shown_cars = found,
                               !.last_shown_target_price = Some(Catalog[found[1]].price),
                               !.last_shown_target_model = Some(Catalog[found[1]].model),
                               !.last_shown_target_brand = Some(Catalog[found[1]].brand)],
           response |-> Resp("show_results", "")]
     ELSE [ctx |-> [ctx EXCEPT !.search_performed = TRUE, !.results_shown = FALSE],
           response |-> Resp("no_results", "")]

DoAsk_ForgetsEarlierFlags(ctx) ==
  LET q == get_next_question(ctx)
  IN IF q # NULL
     THEN [ctx |-> [ctx EXCEPT !.last_question_key = q,
                               !.asked_questions = {AskedFlag(Get(q))},
                               !.last_acknowledged_info = {}],
           response |-> Resp("ask_next_question", Get(q))]
     ELSE [ctx |-> [ctx EXCEPT !.last_question_key = q],
           response |-> Resp("generic_fallback_more", "")]

\* the ask branch: [ctx, response]
DoAsk(ctx) ==
  LET q == get_next_question(ctx)
      c1 == [ctx EXCEPT !.last_question_key = q]
  IN IF q # NULL
     THEN [ctx |-> [c1 EXCEPT !.asked_questions = @ \cup {AskedFlag(Get(q))},
                              !.last_acknowledged_info = {}],
           response |-> IF ctx.last_acknowledged_info # {}
                        THEN Resp("acknowledge_and_ask", Get(q))
                        ELSE Resp("ask_next_question", Get(q))]
     ELSE [ctx |-> c1,
           response |-> IF should_search(c1) /\ ~c1.search_performed
                        THEN Resp("offer_search_or_reset", "")
                        ELSE Resp("generic_fallback_more", "")]

DoListAll_LeavesSearchPerformed(ctx, dbok) ==
  LET found == find_cars_by_criteria(EmptyFilters, SearchLimit, dbok)
  IN [ctx |-> [ctx EXCEPT !.results_shown = (found # << >>)],
      response |-> IF found # << >> THEN Resp("list_all_results", "")
                   ELSE Resp("list_all_empty", "")]

DoListAll(ctx, dbok) ==
  LET found == find_cars_by_criteria(EmptyFilters, SearchLimit, dbok)
  IN [ctx |-> [ctx EXCEPT !.search_performed = TRUE, !.results_shown = (found # << >>)],
      response |-> IF found # << >> THEN Resp("list_all_results", "")
                   ELSE Resp("list_all_empty", "")]

AnchorSet(ctx) ==
  /\ ctx.last_shown_target_price # NULL
  /\ ctx.last_shown_target_model # NULL /\ ctx.last_shown_target_model # << "" >>
  /\ ctx.last_shown_target_brand # NULL /\ ctx.last_shown_target_brand # << "" >>

DoFindSimilar(ctx, dbok) ==
  IF AnchorSet(ctx)
  THEN LET similar == find_similar_priced_cars(Get(ctx.last_shown_target_price),
                        Get(ctx.last_shown_target_brand), Get(ctx.last_shown_target_model),
                        SearchLimit, dbok)
       IN [ctx |-> [ctx EXCEPT !.search_performed = TRUE, !.results_shown = (similar # << >>)],
           response |-> IF similar # << >> THEN Resp("show_similar_results", "")
                        ELSE Resp("no_similar_results", "")]
  ELSE [ctx |-> [ctx EXCEPT !.results_shown = FALSE],
        response |-> Resp("similarity_context_missing", "")]

\* the filters of the clarification lookup: every non-null filter but brand
ClarificationFilters(ctx) == [ctx.filters EXCEPT !["brand"] = NULL]

DoClarifyModel_KeepsUnknownModel(ctx, dbok) ==
  IF ctx.filters["model"] = NULL \/ ctx.filters["model"] = << "" >>
  THEN [ctx |-> ctx, response |-> Resp("generic_fallback", "")]
  ELSE LET found == find_cars_by_criteria(ClarificationFilters(ctx), ClarifyLimit, dbok)
       IN IF found # << >>
          THEN [ctx |-> [ctx EXCEPT !.potential_model_matches = found,
                                    !.awaiting_model_confirmation = TRUE],
                response |-> IF Len(found) = 1 THEN Resp("confirm_model_match", "")
                             ELSE Resp("confirm_multiple_model_match", "")]
          ELSE [ctx |-> [ctx EXCEPT !.awaiting_model_confirmation = FALSE,
                                    !.potential_model_matches = NULL],
                response |-> Resp("model_not_found_ask_brand", "")]

DoClarifyModel(ctx, dbok) ==
  IF ctx.filters["model"] = NULL \/ ctx.filters["model"] = << "" >>
  THEN [ctx |-> ctx, response |-> Resp("generic_fallback", "")]
  ELSE LET found == find_cars_by_criteria(ClarificationFilters(ctx), ClarifyLimit, dbok)
       IN IF found # << >>
          THEN [ctx |-> [ctx EXCEPT !.potential_model_matches = found,
                                    !.awaiting_model_confirmation = TRUE],
                response |-> IF Len(found) = 1 THEN Resp("confirm_model_match", "")
                             ELSE Resp("confirm_multiple_model_match", "")]
          ELSE [ctx |-> [ctx EXCEPT !.filters["model"] = NULL,
                                    !.awaiting_model_confirmation = FALSE,
                                    !.potential_model_matches = NULL],
                response |-> Resp("model_not_found_ask_brand", "")]

ConfirmedCar_TakesLast(matches) == matches[Len(matches)]

\* the 'yes' branch adopts the first stored candidate
ConfirmedCar(matches) == matches[1]

ClearClarification_KeepsMatches(ctx) ==
  [ctx EXCEPT !.awaiting_model_confirmation = FALSE]

ClearClarification_KeepsState(ctx) == ctx

\* "Reset confirmation state after handling"
ClearClarification(ctx) ==
  [ctx EXCEPT !.awaiting_model_confirmation = FALSE, !.potential_model_matches = NULL]

\* the stored candidates are database rows read in an earlier turn; the
\* session expired them at that turn's commit, so reading the confirmed
\* car's brand loads the row again and raises when the database fails
ConfirmationRaises(ctx, e, dbok) ==
  e.confirmation = Some("yes") /\ ctx.potential_model_matches # NULL /\ ~dbok

DoHandleModelConfirmation_NoKeepsModel(ctx, e) ==
  LET clear(c) == ClearClarification(c)
  IN IF e.confirmation = Some("yes") /\ ctx.potential_model_matches # NULL
     THEN LET car == Catalog[ConfirmedCar(ctx.potential_model_matches)]
              c1 == [ctx EXCEPT !.filters["brand"] = Some(car.brand),
                                !.filters["model"] = Some(car.model),
                                !.asked_questions = @ \cup {AskedFlag("brand"), AskedFlag("model")}]
              q == get_next_question(c1)
              c2 == [c1 EXCEPT !.last_question_key = q]
          IN [ctx |-> clear(c2),
              response |-> IF q # NULL THEN Resp("confirmation_acknowledge_ask_next", Get(q))
                           ELSE IF should_search(c2) /\ ~c2.search_performed
                           THEN Resp("confirmation_acknowledge_ask_next", "search_prompt")
                           ELSE Resp("confirmation_acknowledge_ask_next", "")]
     ELSE IF e.confirmation = Some("no")
     THEN [ctx |-> clear(ctx),
           response |-> Resp("clarification_needed_after_no", "")]
     ELSE [ctx |-> clear([ctx EXCEPT !.filters["model"] = NULL]),
           response |-> Resp("clarification_needed_after_no", "yes_no_please")]

DoHandleModelConfirmation(ctx, e) ==
  LET clear(c) == ClearClarification(c)
  IN IF e.confirmation = Some("yes") /\ ctx.potential_model_matches # NULL
     THEN LET car == Catalog[ConfirmedCar(ctx.potential_model_matches)]
              c1 == [ctx EXCEPT !.filters["brand"] = Some(car.brand),
                                !.filters["model"] = Some(car.model),
                                !.asked_questions = @ \cup {AskedFlag("brand"), AskedFlag("model")}]
              q == get_next_question(c1)
              c2 == [c1 EXCEPT !.last_question_key = q]
          IN [ctx |-> clear(c2),
              response |-> IF q # NULL THEN Resp("confirmation_acknowledge_ask_next", Get(q))
                           ELSE IF should_search(c2) /\ ~c2.search_performed
                           THEN Resp("confirmation_acknowledge_ask_next", "search_prompt")
                           ELSE Resp("confirmation_acknowledge_ask_next", "")]
     ELSE IF e.confirmation = Some("no")
     THEN [ctx |-> clear([ctx EXCEPT !.filters["model"] = NULL]),
           response |-> Resp("clarification_needed_after_no", "")]
     ELSE [ctx |-> clear([ctx EXCEPT !.filters["model"] = NULL]),
           response |-> Resp("clarification_needed_after_no", "yes_no_please")]

DoWait(ctx) ==
  [ctx |-> ctx,
   response |-> IF ctx.last_response = NULL THEN Resp("generic_fallback", "")
                ELSE ctx.last_response]

\* the tail of _execute_action: which response ends up in last_response
StoreResponse(ctx, action, response) ==
  IF action \notin {"wait", "reset", "farewell", "greeting", "list_all"}
  THEN [ctx EXCEPT !.last_response = response]
  ELSE IF action = "wait" THEN ctx
  ELSE IF ctx.last_response # NULL THEN ctx
  ELSE [ctx EXCEPT !.last_response = response]

\* first chain of branches: search
ExecFirst(c0, a1, dbok) ==
  IF a1 = "search" THEN DoSearch(c0, dbok)
  ELSE [ctx |-> c0, response |-> Resp("generic_fallback", "")]

\* second chain: ask / list_all / find_similar
ExecSecond(r1, a1, dbok) ==
  IF a1 = "ask" THEN DoAsk(r1.ctx)
  ELSE IF a1 = "list_all" THEN DoListAll(r1.ctx, dbok)
  ELSE IF a1 = "find_similar" THEN DoFindSimilar(r1.ctx, dbok)
  ELSE r1

\* third chain: clarify_model / handle_model_confirmation / wait
ExecThird(r2, a1, e, dbok) ==
  IF a1 = "clarify_model" THEN DoClarifyModel(r2.ctx, dbok)
  ELSE IF a1 = "handle_model_confirmation" THEN DoHandleModelConfirmation(r2.ctx, e)
  ELSE IF a1 = "wait" THEN DoWait(r2.ctx)
  ELSE r2

\* the database calls of the branch that ran
ExecLookups(c0, a1) ==
  IF a1 = "search" THEN << Lookup("search", c0.filters) >>
  ELSE IF a1 = "list_all" THEN << Lookup("list_all", EmptyFilters) >>
  ELSE IF a1 = "find_similar" /\ AnchorSet(c0) THEN << Lookup("find_similar", EmptyFilters) >>
  ELSE IF a1 = "clarify_model" /\ c0.filters["model"] # NULL /\ c0.filters["model"] # << "" >>
  THEN << Lookup("clarify_model", ClarificationFilters(c0)) >>
  ELSE << >>

ExecStore(c0, a1, r3) ==
  [ctx |-> StoreResponse(r3.ctx, a1, r3.response), executed |-> << a1 >>,
   lookups |-> ExecLookups(c0, a1), raised |-> FALSE]

\* the branches in the order of the code; a1 is the action after the search
\* branch had its chance to rename it
ExecBranches(c0, a1, e, dbok) ==
  ExecStore(c0, a1, ExecThird(ExecSecond(ExecFirst(c0, a1, dbok), a1, dbok), a1, e, dbok))

\* the body after the prologue
ExecBody(c0, action, e, dbok) ==
  IF action = "handle_model_confirmation" /\ ConfirmationRaises(c0, e, dbok)
  THEN [ctx |-> c0, executed |-> << "handle_model_confirmation" >>,
        lookups |-> << >>, raised |-> TRUE]
  ELSE ExecBranches(c0, IF action = "search" THEN SearchRedirect(c0) ELSE action, e, dbok)

execute_action(ctx, action, e, dbok) == ExecBody(ExecPrologue(ctx, action), action, e, dbok)

(***************************************************************************)
(* process_message.  A turn's result: [ctx, mem, keys, route, requested,   *)
(* executed, lookups, response, raised, updated, reset].                   *)
(***************************************************************************)
Truthy(o) == o # NULL /\ o # << "" >>

HasFlag(e, flag) == flag \in e.flags

\* Python truth value of a filter value: None, "" and 0 are false
Falsy(k, v) == v = NULL \/ (IF k \in StrKeys THEN v = << "" >> ELSE v = << 0 >>)

\* the call of _update_context_with_entities a turn made, if any
NoUpdate == [called |-> FALSE, before |-> FreshContext, after |-> FreshContext]

Turn_SkipsMemory(ctx, mem, keys, route, requested, ex, response, updated, reset) ==
  [ctx |-> ctx, mem |-> mem,
   keys |-> keys, route |-> route, requested |-> requested,
   executed |-> ex.executed, lookups |-> ex.lookups, response |-> response,
   raised |-> FALSE, updated |-> updated, reset |-> reset, upd |-> NoUpdate]

\* the tail of every return path: the response goes to the memory
Turn(ctx, mem, keys, route, requested, ex, response, updated, reset) ==
  [ctx |-> ctx, mem |-> add_message(mem, AgentMaxMessages, "assistant", response),
   keys |-> keys, route |-> route, requested |-> requested,
   executed |-> ex.executed, lookups |-> ex.lookups, response |-> response,
   raised |-> FALSE, updated |-> updated, reset |-> reset, upd |-> NoUpdate]

NoExec == [executed |-> << >>, lookups |-> << >>]

TurnRaised_KeepsClarification(ctx, mem, keys, route, requested) ==
  [ctx |-> ctx,
   mem |-> add_message(mem, AgentMaxMessages, "assistant", Resp("error_fallback", "")),
   keys |-> keys, route |-> route, requested |-> requested,
   executed |-> << requested >>, lookups |-> << >>,
   response |-> Resp("error_fallback", ""),
   raised |-> TRUE, updated |-> FALSE, reset |-> FALSE, upd |-> NoUpdate]

\* the except clause of process_message
TurnRaised(ctx, mem, keys, route, requested) ==
  [ctx |-> [ctx EXCEPT !.awaiting_model_confirmation = FALSE, !.potential_model_matches = NULL],
   mem |-> add_message(mem, AgentMaxMessages, "assistant", Resp("error_fallback", "")),
   keys |-> keys, route |-> route, requested |-> requested,
   executed |-> << requested >>, lookups |-> << >>,
   response |-> Resp("error_fallback", ""),
   raised |-> TRUE, updated |-> FALSE, reset |-> FALSE, upd |-> NoUpdate]

\* a turn that ends with the action run by _execute_action
ExecTurn(ex, mem, keys, route, requested, idl, updated, reset) ==
  Turn(ex.ctx, mem, keys, route, requested,
       [executed |-> ex.executed, lookups |-> idl \o ex.lookups],
       ex.ctx.last_response, updated, reset)

ConfirmationResult(ex, mem) ==
  IF ex.raised THEN TurnRaised(ex.ctx, mem, {}, "confirmation", "handle_model_confirmation")
  ELSE ExecTurn(ex, mem, {}, "confirmation", "handle_model_confirmation", << >>, FALSE, FALSE)

ConfirmationTurn_MergesEntities(ctx, mem, e, dbok) ==
  ConfirmationResult(
    execute_action([update_context_with_entities(ctx, {}, e).ctx EXCEPT !.last_response = NULL],
                   "handle_model_confirmation", e, dbok), mem)

\* "SPECIAL: Handle Confirmation for Model Clarification"
ConfirmationTurn(ctx, mem, e, dbok) ==
  ConfirmationResult(
    execute_action([ctx EXCEPT !.last_response = NULL],
                   "handle_model_confirmation", e, dbok), mem)

\* "Prioritize Similarity Request"
SimilarityTurn_IgnoresAnchor(ctx, mem, e, dbok) ==
  IF ctx.results_shown
  THEN ExecTurn(execute_action(ctx, "find_similar", e, dbok), mem, {},
                "similarity", "find_similar", << >>, FALSE, FALSE)
  ELSE Turn([ctx EXCEPT !.last_response = Resp("similarity_context_missing", "")],
            mem, {}, "similarity", "none", NoExec,
            Resp("similarity_context_missing", ""), FALSE, FALSE)

SimilarityTurn_MergesEntities(ctx, mem, e, dbok) ==
  IF ctx.results_shown /\ AnchorSet(ctx)
  THEN ExecTurn(execute_action(update_context_with_entities(ctx, {}, e).ctx, "find_similar", e, dbok),
                mem, {}, "similarity", "find_similar", << >>, FALSE, FALSE)
  ELSE Turn([update_context_with_entities(ctx, {}, e).ctx
               EXCEPT !.last_response = Resp("similarity_context_missing", "")],
            mem, {}, "similarity", "none", NoExec,
            Resp("similarity_context_missing", ""), FALSE, FALSE)

\* "Prioritize Similarity Request"
SimilarityTurn(ctx, mem, e, dbok) ==
  IF ctx.results_shown /\ AnchorSet(ctx)
  THEN ExecTurn(execute_action(ctx, "find_similar", e, dbok), mem, {},
                "similarity", "find_similar", << >>, FALSE, FALSE)
  ELSE Turn([ctx EXCEPT !.last_response = Resp("similarity_context_missing", "")],
            mem, {}, "similarity", "none", NoExec,
            Resp("similarity_context_missing", ""), FALSE, FALSE)

\* "Customer Identification": [ctx, lookups]
NeedsIdentification(ctx, e) ==
  /\ e.has_phone /\ e.phone # NULL /\ Get(e.phone) # << >>
  /\ (e.phone # ctx.customer_phone \/ ctx.customer_phone = NULL)

\* the context once the lookup returned lead number i of Leads (0: none)
Identified(c1, e, i) ==
  IF i # 0
  THEN [c1 EXCEPT !.customer_id = Some(Leads[i].id),
                  !.customer_first_name = Some(Leads[i].first_name),
                  !.customer_phone = Some(Leads[i].phone),
                  !.customer_desired_car = Some(Leads[i].desired_car_info)]
  ELSE [c1 EXCEPT !.customer_phone = e.phone,
                  !.customer_first_name = IF Truthy(e.first_name) THEN e.first_name ELSE @]

ForgetCustomer_KeepsGreetingDone(ctx) ==
  IF ctx.customer_id # NULL
  THEN [ctx EXCEPT !.customer_id = NULL, !.customer_first_name = NULL,
                   !.customer_desired_car = NULL]
  ELSE ctx

\* a different number forgets the customer identified before
ForgetCustomer(ctx) ==
  IF ctx.customer_id # NULL
  THEN [ctx EXCEPT !.customer_id = NULL, !.customer_first_name = NULL,
                   !.customer_desired_car = NULL,
                   !.initial_personalized_greeting_done = FALSE]
  ELSE ctx

IdentifyCustomer(ctx, e, dbok) ==
  IF ~NeedsIdentification(ctx, e) THEN [ctx |-> ctx, lookups |-> << >>]
  ELSE [ctx |-> Identified(ForgetCustomer(ctx), e,
                           find_customer_lead_by_phone(Get(e.phone), dbok)),
        lookups |-> << Lookup("find_customer", EmptyFilters) >>]

ImmediateIntent_GreetsKnownCustomer(ctx, e) ==
  IF HasFlag(e, "is_reset") THEN "reset"
  ELSE IF HasFlag(e, "is_farewell") THEN "farewell"
  ELSE IF HasFlag(e, "is_greeting") /\ ~ctx.initial_personalized_greeting_done
  THEN IF \A k \in FilterKeys : Falsy(k, ctx.filters[k])
       THEN "greeting" ELSE "none"
  ELSE IF HasFlag(e, "is_list_all")
  THEN IF \A k \in EntityFilterKeys : Falsy(k, e.f[k])
       THEN "list_all" ELSE "none"
  ELSE "none"

\* _handle_immediate_actions: the intent acted on, or "none"
ImmediateIntent(ctx, e) ==
  IF HasFlag(e, "is_reset") THEN "reset"
  ELSE IF HasFlag(e, "is_farewell") THEN "farewell"
  ELSE IF HasFlag(e, "is_greeting") /\ ~ctx.initial_personalized_greeting_done
  THEN IF (\A k \in FilterKeys : Falsy(k, ctx.filters[k])) /\ ctx.customer_id = NULL
       THEN "greeting" ELSE "none"
  ELSE IF HasFlag(e, "is_list_all")
  THEN IF \A k \in EntityFilterKeys : Falsy(k, e.f[k])
       THEN "list_all" ELSE "none"
  ELSE "none"

SelectAction_OverlooksUpdate(ctx, e, updated) ==
  IF e.confirmation = Some("yes")
  THEN IF ctx.results_shown THEN "wait"
       ELSE IF should_search(ctx) THEN "search" ELSE "ask"
  ELSE IF e.confirmation = Some("no")
  THEN IF ctx.results_shown THEN "wait" ELSE "ask"
  ELSE IF should_search(ctx) /\ ~ctx.search_performed THEN "search" ELSE "ask"

SelectAction_YesSearchesAgain(ctx, e, updated) ==
  IF updated THEN (IF should_search(ctx) THEN "search" ELSE "ask")
  ELSE IF e.confirmation = Some("yes")
  THEN IF should_search(ctx) THEN "search" ELSE "ask"
  ELSE IF e.confirmation = Some("no")
  THEN IF ctx.results_shown THEN "wait" ELSE "ask"
  ELSE IF should_search(ctx) /\ ~ctx.search_performed THEN "search" ELSE "ask"

\* the dialogue action the selector picks after the context update
SelectAction(ctx, e, updated) ==
  IF updated THEN (IF should_search(ctx) THEN "search" ELSE "ask")
  ELSE IF e.confirmation = Some("yes")
  THEN IF ctx.results_shown THEN "wait"
       ELSE IF should_search(ctx) THEN "search" ELSE "ask"
  ELSE IF e.confirmation = Some("no")
  THEN IF ctx.results_shown THEN "wait" ELSE "ask"
  ELSE IF should_search(ctx) /\ ~ctx.search_performed THEN "search" ELSE "ask"

NeedsClarification_OnlyForNewModel(ctx, keys, updated) ==
  /\ Truthy(ctx.filters["model"]) /\ ~Truthy(ctx.filters["brand"])
  /\ "model" \in keys

\* "Check for Model Clarification Need"
NeedsClarification(ctx, keys, updated) ==
  /\ Truthy(ctx.filters["model"]) /\ ~Truthy(ctx.filters["brand"])
  /\ ("model" \in keys \/ ~updated)

\* the reset intent: [ctx, mem] after _reset_context, the response stored
ResetTurn(r, idl) ==
  Turn([r.ctx EXCEPT !.last_response = Resp("confirm_reset", "")], r.mem, {},
       "immediate", "reset", [executed |-> << >>, lookups |-> idl],
       Resp("confirm_reset", ""), FALSE, TRUE)

ImmediateTurn(ctx, mem, e, dbok, intent, idl) ==
  IF intent = "reset" THEN ResetTurn(reset_context(mem), idl)
  ELSE IF intent = "list_all"
  THEN ExecTurn(execute_action(ctx, "list_all", e, dbok), mem, {},
                "immediate", "list_all", idl, FALSE, FALSE)
  ELSE Turn([ctx EXCEPT !.last_response = Resp(intent, "")], mem, {}, "immediate", intent,
            [executed |-> << >>, lookups |-> idl], Resp(intent, ""), FALSE, FALSE)

\* 'no' after shown results: the context is reset before the wait action
ResetForNewSearch(r) ==
  [ctx |-> [r.ctx EXCEPT !.last_response = Resp("wait_no_prompt", "")],
   mem |-> r.mem, reset |-> TRUE]

BeforeAction_NoKeepsCustomer(ctx, mem, e, updated) ==
  IF ~updated /\ e.confirmation = Some("yes") /\ ctx.results_shown
  THEN [ctx |-> [ctx EXCEPT !.last_response = Resp("wait_yes_prompt", "")],
        mem |-> mem, reset |-> FALSE]
  ELSE IF ~updated /\ e.confirmation = Some("no") /\ ctx.results_shown
  THEN [ctx |-> [FreshContext EXCEPT !.last_response = Resp("wait_no_prompt", ""),
                                     !.customer_id = ctx.customer_id,
                                     !.customer_first_name = ctx.customer_first_name,
                                     !.customer_phone = ctx.customer_phone,
                                     !.customer_desired_car = ctx.customer_desired_car],
        mem |-> clear_memory(mem), reset |-> TRUE]
  ELSE IF ~updated /\ e.confirmation = Some("no") /\ ctx.last_question_key # NULL
  THEN [ctx |-> [ctx EXCEPT !.asked_questions = @ \cup {AskedFlag(Get(ctx.last_question_key))}],
        mem |-> mem, reset |-> FALSE]
  ELSE [ctx |-> ctx, mem |-> mem, reset |-> FALSE]

\* what the selector does to the context before the action runs:
\* [ctx, mem, reset]
BeforeAction(ctx, mem, e, updated) ==
  IF ~updated /\ e.confirmation = Some("yes") /\ ctx.results_shown
  THEN [ctx |-> [ctx EXCEPT !.last_response = Resp("wait_yes_prompt", "")],
        mem |-> mem, reset |-> FALSE]
  ELSE IF ~updated /\ e.confirmation = Some("no") /\ ctx.results_shown
  THEN ResetForNewSearch(reset_context(mem))
  ELSE IF ~updated /\ e.confirmation = Some("no") /\ ctx.last_question_key # NULL
  THEN [ctx |-> [ctx EXCEPT !.asked_questions = @ \cup {AskedFlag(Get(ctx.last_question_key))}],
        mem |-> mem, reset |-> FALSE]
  ELSE [ctx |-> ctx, mem |-> mem, reset |-> FALSE]

\* the selected action, run on the context b the selector left
SelectedTurn(u, b, action, e, dbok, idl) ==
  ExecTurn(execute_action(b.ctx, action, e, dbok), b.mem, u.keys,
           "normal", action, idl, u.updated, b.reset)

\* the flow after the context update u
NormalFlow(u, mem, e, dbok, idl) ==
  IF NeedsClarification(u.ctx, u.keys, u.updated)
  THEN ExecTurn(execute_action(u.ctx, "clarify_model", e, dbok), mem, u.keys,
                "normal", "clarify_model", idl, u.updated, FALSE)
  ELSE SelectedTurn(u, BeforeAction(u.ctx, mem, e, u.updated),
                    SelectAction(u.ctx, e, u.updated), e, dbok, idl)

\* the turn t with the call of _update_context_with_entities it made
WithUpdate(t, ctx, u) == [t EXCEPT !.upd = [called |-> TRUE, before |-> ctx, after |-> u.ctx]]

NormalFlowOf(u, ctx, mem, e, dbok, idl) == WithUpdate(NormalFlow(u, mem, e, dbok, idl), ctx, u)

NormalTurn(ctx, mem, e, dbok, idl) ==
  NormalFlowOf(update_context_with_entities(ctx, {}, e), ctx, mem, e, dbok, idl)

\* the turn after customer identification id
AfterIdentification(id, mem, e, dbok) ==
  IF ImmediateIntent(id.ctx, e) # "none"
  THEN ImmediateTurn(id.ctx, mem, e, dbok, ImmediateIntent(id.ctx, e), id.lookups)
  ELSE NormalTurn(id.ctx, mem, e, dbok, id.lookups)

\* the routing of a turn whose user message is already in the memory
RouteTurn(ctx, mem, e, dbok) ==
  IF ctx.awaiting_model_confirmation THEN ConfirmationTurn(ctx, mem, e, dbok)
  ELSE IF HasFlag(e, "is_similarity_request") THEN SimilarityTurn(ctx, mem, e, dbok)
  ELSE AfterIdentification(IdentifyCustomer(ctx, e, dbok), mem, e, dbok)

\* the extraction leaves through an exception: before any routing the except
\* clause of process_message answers
ExtractionFailedTurn(ctx, mem) ==
  [TurnRaised(ctx, mem, {}, "extraction", "none") EXCEPT !.executed = << >>]

\* the turn once the entities are extracted, or the extraction has failed
ExtractedTurn(ctx, mem, e, dbok) ==
  IF ExtractionRaises(e) THEN ExtractionFailedTurn(ctx, mem)
  ELSE RouteTurn(ctx, mem, e, dbok)

process_message(ctx, mem, text, e, dbok) ==
  ExtractedTurn(ctx, add_message(mem, AgentMaxMessages, "user", text), e, dbok)

(***************************************************************************)
(* The turns explored.  An input carries one piece of information or one   *)
(* of the listed combinations.                                             *)
(***************************************************************************)
WithFilter(e, k, v) == [e EXCEPT !.f[k] = Some(v)]
WithFlag(e, flag) == [e EXCEPT !.flags = @ \cup {flag}]
WithConfirmation(e, c) == [e EXCEPT !.confirmation = Some(c)]
WithPhone(e, p) == [e EXCEPT !.has_phone = TRUE, !.phone = p]
WithName(e, n) == [e EXCEPT !.first_name = Some(n)]
Fallback(e) == [e EXCEPT !.source = "fallback"]
\* the extractor failed and the message carries a price in thousands
FallbackError == [NoEntities EXCEPT !.source = "fallback_error"]

FilterValues ==
  [ brand |-> {"Toyota", "Honda"}, model |-> {"Corolla", "Sport", "Yaris"},
    engine_type |-> {"Elektrik"}, body_type |-> {"SUV"}, transmission |-> {"Otomatik"},
    min_price |-> {650}, max_price |-> {800}, min_year |-> {2021}, max_year |-> {2020} ]

\* phone numbers as the extractor gives them: of a stored lead, of nobody,
\* and one too short to be a phone number
KnownPhone == << "0", "5", "3", "2", " ", "1", "2", "3", " ", "4", "5", " ", "6", "7" >>
OtherPhone == << "+", "9", "0", " ", "5", "5", "5", " ", "9", "8", "7", " ", "6", "5", " ", "4", "3" >>
ShortPhone == << "1", "2", "3", "4", "5" >>

\* normalized['phone'] for a phone_number the extractor gave
PhoneEntity(phone_number) == normalize_phone(Some(phone_number))

\* one filter value
FilterInputs ==
  UNION {{WithFilter(NoEntities, k, v) : v \in FilterValues[k]} : k \in EntityFilterKeys}

\* one intent: a flag or a confirmation
IntentInputs ==
  {WithFlag(NoEntities, flag) : flag \in FlagKeys}
    \cup {WithConfirmation(NoEntities, c) : c \in {"yes", "no"}}

\* customer information; a malformed phone number arrives as phone: None
CustomerInputs ==
  {WithName(NoEntities, "Veli"), WithPhone(NoEntities, PhoneEntity(KnownPhone)),
   WithPhone(NoEntities, PhoneEntity(OtherPhone)), WithPhone(NoEntities, PhoneEntity(ShortPhone)),
   WithName(WithPhone(NoEntities, PhoneEntity(OtherPhone)), "Veli")}

\* an intent together with a filter value, a phone number or a second flag
Companions(e) ==
  {WithFilter(e, "brand", "Honda"), WithPhone(e, PhoneEntity(KnownPhone)), WithFlag(e, "is_list_all")}

IntentPairInputs == UNION {Companions(e) : e \in IntentInputs}

\* two filter values: a brand or an engine type together with a model
FilterPairInputs ==
  UNION {{WithFilter(e, "model", m) : m \in FilterValues["model"]} :
           e \in {x \in FilterInputs : x.f["brand"] # NULL \/ x.f["engine_type"] # NULL}}

\* a confirmation value that is neither 'yes' nor 'no' (the value the
\* extractor gave is passed on as it is)
OtherConfirmation == WithConfirmation(NoEntities, "maybe")

EntityInputs ==
  {NoEntities, Fallback(NoEntities), FallbackError, OtherConfirmation}
    \cup FilterInputs \cup IntentInputs \cup CustomerInputs
    \cup IntentPairInputs \cup FilterPairInputs

\* the text of the n-th user message
UserText(n) == << "user message", n >>

(***************************************************************************)
(* The conversation: the agent is constructed, then processes turns.       *)
(***************************************************************************)
(***************************************************************************)
(* generate_proactive_start_message.  Result: [ctx, mem, response,         *)
(* lookups]; the response is the intro followed by the part named by its   *)
(* key.                                                                    *)
(***************************************************************************)
\* the filters _get_criteria_summary has something to say about
SetFilterKeys(ctx) == {k \in FilterKeys : ctx.filters[k] # NULL}

\* _initialize_with_customer: [ctx, mem]
SeedCustomer(r, lead) ==
  [ctx |-> [r.ctx EXCEPT !.customer_id = Some(lead.id),
                         !.customer_first_name = Some(lead.first_name),
                         !.customer_phone = Some(lead.phone),
                         !.customer_desired_car = Some(lead.desired_car_info),
                         !.initial_personalized_greeting_done = TRUE],
   mem |-> r.mem]

initialize_with_customer(mem, lead) == SeedCustomer(reset_context(mem), lead)

\* "Clear transient states before proceeding"
ClearTransient(ctx) ==
  [ClearAnchor(ctx) EXCEPT !.awaiting_model_confirmation = FALSE,
                           !.potential_model_matches = NULL,
                           !.search_performed = FALSE, !.results_shown = FALSE]

\* filters.update(initial_filters)
WithParsedFilters(ctx, initial_filters) ==
  [ctx EXCEPT !.filters =
     [k \in FilterKeys |-> IF k \in ParsedKeys /\ initial_filters[k] # NULL THEN initial_filters[k] ELSE @[k]]]

ProactiveClarify(ex) ==
  [ctx |-> ex.ctx, lookups |-> ex.lookups,
   part |-> IF ex.ctx.last_response # NULL THEN ex.ctx.last_response[1]
            ELSE "generic_fallback"]

ProactiveSearch(ctx, found) ==
  IF found # << >>
  THEN [ctx |-> [ctx EXCEPT !.search_performed = TRUE, !.results_shown = TRUE,
                            !.last_shown_cars = found,
                            !.last_shown_target_price = Some(Catalog[found[1]].price),
                            !.last_shown_target_model = Some(Catalog[found[1]].model),
                            !.last_shown_target_brand = Some(Catalog[found[1]].brand)],
        lookups |-> << Lookup("search", ctx.filters) >>,
        part |-> "proactive_search_results"]
  ELSE [ctx |-> [ctx EXCEPT !.search_performed = TRUE, !.results_shown = FALSE],
        lookups |-> << Lookup("search", ctx.filters) >>,
        part |-> "proactive_no_results"]

\* "Parsed filters but cannot search yet"
ProactiveAsk(ctx, q) ==
  IF q # NULL
  THEN [ctx |-> [ctx EXCEPT !.last_question_key = q,
                            !.asked_questions = @ \cup {AskedFlag(Get(q))}],
        lookups |-> << >>,
        part |-> IF SetFilterKeys(ctx) # {} THEN "acknowledge_and_ask" ELSE "ask_next_question"]
  ELSE [ctx |-> [ctx EXCEPT !.last_question_key = NULL], lookups |-> << >>,
        part |-> "generic_fallback"]

ProactiveBranches(ctx, dbok) ==
  IF Truthy(ctx.filters["model"]) /\ ~Truthy(ctx.filters["brand"])
  THEN ProactiveClarify(execute_action(ctx, "clarify_model", NoEntities, dbok))
  ELSE IF should_search(ctx)
  THEN ProactiveSearch(ctx, find_cars_by_criteria(ctx.filters, ProactiveLimit, dbok))
  ELSE ProactiveAsk(ctx, get_next_question(ctx))

ProactiveParsed(ctx, initial_filters, dbok) ==
  IF initial_filters # NoParsedFilters
  THEN ProactiveBranches(WithParsedFilters(ctx, initial_filters), dbok)
  ELSE [ctx |-> ctx, lookups |-> << >>, part |-> "proactive_cannot_parse"]

\* the tail: the full message goes to the memory and to last_response
ProactiveMessage_KeepsGreetingOpen(b, mem) ==
  [ctx |-> [b.ctx EXCEPT !.last_response = Resp("proactive_greeting_intro", b.part),
                         !.initial_personalized_greeting_done = FALSE],
   mem |-> add_message(mem, AgentMaxMessages, "assistant",
                       Resp("proactive_greeting_intro", b.part)),
   response |-> Resp("proactive_greeting_intro", b.part), lookups |-> b.lookups]

ProactiveMessage(b, mem) ==
  [ctx |-> [b.ctx EXCEPT !.last_response = Resp("proactive_greeting_intro", b.part)],
   mem |-> add_message(mem, AgentMaxMessages, "assistant",
                       Resp("proactive_greeting_intro", b.part)),
   response |-> Resp("proactive_greeting_intro", b.part), lookups |-> b.lookups]

ProactiveFrom(r, lead, dbok) ==
  ProactiveMessage(
    ProactiveParsed(ClearTransient(r.ctx),
                    parse_desired_car_info(Some(lead.desired_car_info), get_distinct_brands(dbok)),
                    dbok),
    r.mem)

generate_proactive_start_message(mem, lead, dbok) ==
  ProactiveFrom(initialize_with_customer(mem, lead), lead, dbok)

NoParse == [fn |-> "none", arg |-> NoneValue, result |-> NULL]

\* search_ran as a call leaves it: a search made in the call counts for the
\* filters the call leaves
SearchRanAfter(ran, before, after, lookups, reset) ==
  IF "search" \in {lookups[i].op : i \in 1..Len(lookups)} THEN TRUE
  ELSE IF after.filters # before.filters \/ reset THEN FALSE
  ELSE ran

\* what a call remembers of the call before it: the action that ran, the
\* response, and the shown results that call started from
NoPrev == [executed |-> << >>, response |-> NULL, shown |-> FALSE, cars |-> NULL]

PrevOf(turn) ==
  [executed |-> turn.executed, response |-> turn.response,
   shown |-> turn.before.results_shown, cars |-> turn.before.last_shown_cars]

NoTurn ==
  [op |-> "init", lead |-> 0, searched |-> FALSE, prev |-> NoPrev, e |-> NoEntities, text |-> NULL, before |-> FreshContext,
   route |-> "none", requested |-> "none", executed |-> << >>, lookups |-> << >>,
   response |-> NULL, raised |-> FALSE, updated |-> FALSE, reset |-> FALSE,
   upd |-> NoUpdate]

Init ==
  /\ current_context = FreshContext
  /\ memory = << >>
  /\ updated_keys_this_turn = {}
  /\ turns = 0
  /\ last_turn = NoTurn
  /\ max_messages = AgentMaxMessages
  /\ mem_added = << >>
  /\ mem_ops = 0
  /\ parsed = NoParse
  /\ search_ran = FALSE

\* one call of process_message: the message's entities are e, the database
\* works (dbok) or fails during the call
ProcessTurn(e, dbok) ==
  \E text \in {UserText(turns + 1)} :
  \E t \in {process_message(current_context, memory, text, e, dbok)} :
     /\ current_context' = t.ctx
     /\ memory' = t.mem
     /\ updated_keys_this_turn' =
          IF ExtractionRaises(e) THEN updated_keys_this_turn ELSE t.keys
     /\ turns' = turns + 1
     /\ last_turn' =
          [op |-> "process_message", lead |-> last_turn.lead, searched |-> search_ran,
           prev |-> PrevOf(last_turn),
           e |-> e, text |-> text, before |-> current_context,
           route |-> t.route, requested |-> t.requested, executed |-> t.executed,
           lookups |-> t.lookups, response |-> t.response, raised |-> t.raised,
           updated |-> t.updated, reset |-> t.reset, upd |-> t.upd]
     /\ search_ran' = SearchRanAfter(search_ran, current_context, t.ctx, t.lookups, t.reset)
     /\ UNCHANGED << max_messages, mem_added, mem_ops >>

\* a turn whose entities are given: the request to the extractor is not observed
Process(e, dbok) == ProcessTurn(e, dbok) /\ UNCHANGED parsed

ProcessMessage ==
  /\ turns < MaxTurns
  /\ \E e \in EntityInputs, dbok \in BOOLEAN : Process(e, dbok)

\* the conversation is opened, or opened again, with the proactive message
\* for a lead; last_turn.lead keeps the lead of the latest start
ProactiveStart ==
  /\ turns < MaxTurns
  /\ \E i \in 1..Len(Leads), dbok \in BOOLEAN :
       \E t \in {generate_proactive_start_message(memory, Leads[i], dbok)} :
          /\ current_context' = t.ctx
          /\ memory' = t.mem
          /\ turns' = turns + 1
          /\ last_turn' = [NoTurn EXCEPT !.op = "generate_proactive_start_message",
                                         !.lead = i, !.searched = search_ran,
                                         !.prev = PrevOf(last_turn),
                                         !.before = current_context,
                                         !.lookups = t.lookups, !.response = t.response]
          /\ search_ran' = SearchRanAfter(search_ran, current_context, t.ctx, t.lookups, TRUE)
          /\ UNCHANGED << updated_keys_this_turn, max_messages, mem_added, mem_ops, parsed >>

Next == ProactiveStart \/ ProcessMessage

Spec == Init /\ [][Next]_vars

(***************************************************************************)
(* Longer conversations over a few kinds of message: a model, a brand,     *)
(* yes, no, a request for the whole list, a request for similar cars, the  *)
(* phone number of a lead, a message that says nothing, and one the        *)
(* extraction fails on.                                                    *)
(***************************************************************************)
LongInputs ==
  {NoEntities, FallbackError,
   WithFilter(NoEntities, "model", "Sport"), WithFilter(NoEntities, "brand", "Honda"),
   WithConfirmation(NoEntities, "yes"), WithConfirmation(NoEntities, "no"),
   WithFlag(NoEntities, "is_list_all"), WithFlag(NoEntities, "is_similarity_request"),
   WithPhone(NoEntities, PhoneEntity(KnownPhone))}

LongTurn ==
  /\ turns < MaxLongTurns
  /\ \E e \in LongInputs, dbok \in BOOLEAN : Process(e, dbok)

LongNext == LongTurn

SpecLong == Init /\ [][LongNext]_vars

(***************************************************************************)
(* A conversation of questions and answers: the customer names a brand, a  *)
(* model or a lowest price, says yes or no, or says nothing that can be    *)
(* used, long enough for the agent to run out of questions.                *)
(***************************************************************************)
AskInputs ==
  {NoEntities, WithFilter(NoEntities, "brand", "Toyota"),
   WithFilter(NoEntities, "model", "Sport"),
   WithFilter(NoEntities, "min_price", 650),
   WithConfirmation(NoEntities, "yes"), WithConfirmation(NoEntities, "no")}

AskingTurn ==
  /\ turns < MaxAskTurns
  /\ \E e \in AskInputs, dbok \in BOOLEAN : Process(e, dbok)

AskNext == AskingTurn

SpecAsk == Init /\ [][AskNext]_vars

(***************************************************************************)
(* A MemoryManager on its own: built with max_turns = N, then any calls of *)
(* add_message and clear_memory.                                           *)
(***************************************************************************)
MemContents == {NULL, << "" >>, << "a" >>, << "b" >>}

MemInit ==
  /\ current_context = FreshContext
  /\ memory = << >>
  /\ updated_keys_this_turn = {}
  /\ turns = 0
  /\ last_turn = NoTurn
  /\ max_messages \in {2 * n : n \in 0..MaxMemTurns}
  /\ mem_added = << >>
  /\ mem_ops = 0
  /\ parsed = NoParse
  /\ search_ran = FALSE

AddMessage ==
  /\ mem_ops < MaxMemOps
  /\ \E role \in {"user", "assistant"}, content \in MemContents :
       /\ memory' = add_message(memory, max_messages, role, content)
       /\ mem_added' = IF IsEmptyContent(content) THEN mem_added
                       ELSE Append(mem_added, [role |-> role, content |-> content])
  /\ mem_ops' = mem_ops + 1
  /\ UNCHANGED << current_context, updated_keys_this_turn, turns, last_turn, max_messages,
                  parsed, search_ran >>

ClearMemory ==
  /\ mem_ops < MaxMemOps
  /\ memory' = clear_memory(memory)
  /\ mem_added' = << >>
  /\ mem_ops' = mem_ops + 1
  /\ UNCHANGED << current_context, updated_keys_this_turn, turns, last_turn, max_messages,
                  parsed, search_ran >>

MemNext == AddMessage \/ ClearMemory

SpecMem == MemInit /\ [][MemNext]_vars

(***************************************************************************)
(* The normalizers on their own: _parse_price called with any of the price *)
(* values below.                                                           *)
(***************************************************************************)
PriceNumbers ==
  {<< "5", "0", "0" >>, << "2", ".", "5" >>, << "1", ",", "2", "5" >>,
   << "1", ".", "2", "5", "0" >>, << "1", "2" >>, << >>}

PriceGaps == {<< >>, << " " >>}

PriceUnits ==
  {<< >>, << "b", "i", "n" >>, << "B", "i", "n" >>, << "k" >>,
   << "m", "i", "l", "y", "o", "n" >>, << "M", "i", "l", "y", "o", "n" >>}

PriceCurrencies == {<< >>, << " ", "T", "L" >>, << " ", "t", "r", "y" >>}

\* "<number><gap><unit><currency>", and two prices written in full
PriceStrings ==
  {n \o g \o u \o c : n \in PriceNumbers, g \in PriceGaps, u \in PriceUnits,
                       c \in PriceCurrencies}
    \cup {<< "7", "5", "0", "0", "0", "0" >>,
          << "1", ".", "2", "5", "0", ".", "0", "0", "0", " ", "T", "L" >>}

PriceInputs ==
  {NoneValue, Number(750000, 0), Number(2, 5)} \cup {Str(chars) : chars \in PriceStrings}

ParsePrice ==
  /\ \E price_val \in PriceInputs :
       parsed' = [fn |-> "_parse_price", arg |-> price_val, result |-> parse_price(price_val)]
  /\ UNCHANGED << current_context, memory, updated_keys_this_turn, turns, last_turn,
                  max_messages, mem_added, mem_ops, search_ran >>

NormNext == ParsePrice

SpecNorm == Init /\ [][NormNext]_vars

(***************************************************************************)
(* _extract_entities_llm and MemoryVerifier.is_memory_relevant.  The score *)
(* is computed by TfidfVectorizer and cosine_similarity on the texts; the  *)
(* call ends with a score above the threshold, with one not above it, or   *)
(* with an exception.                                                      *)
(***************************************************************************)
Scorings == {"above", "below", "error"}

SystemPrompt == [role |-> "system", content |-> << "system prompt" >>]

\* `not text.strip()` for the text of one content
IsBlankContent(content) ==
  IsEmptyContent(content) \/ (Len(content) = 1 /\ content[1] = " ")

\* history_text: the contents that are not empty, joined by newlines
HistoryContents(mem) == SelectSeq(mem, LAMBDA m : ~IsEmptyContent(m.content))

\* `not history_text.strip()`
HistoryIsBlank(mem) ==
  \A i \in 1..Len(HistoryContents(mem)) : IsBlankContent(HistoryContents(mem)[i].content)

is_memory_relevant_TrustsFailedScoring(current_query, mem, scoring) ==
  IF mem = << >> \/ IsEmptyContent(current_query) THEN FALSE
  ELSE IF HistoryIsBlank(mem) THEN FALSE
  ELSE scoring # "below"

is_memory_relevant(current_query, mem, scoring) ==
  IF mem = << >> \/ IsEmptyContent(current_query) THEN FALSE
  ELSE IF HistoryIsBlank(mem) THEN FALSE
  ELSE scoring = "above"

\* the gate is consulted only for a memory that is not empty
GateResult(user_message, mem, scoring) ==
  IF mem # << >> THEN is_memory_relevant(user_message, mem, scoring) ELSE FALSE

\* the message list _extract_entities_llm sends
ExtractorMessages(user_message, mem, is_relevant) ==
  << SystemPrompt >> \o (IF is_relevant THEN mem ELSE << >>)
     \o << [role |-> "user", content |-> user_message] >>

\* the call as `parsed` records it
ExtractorCall(user_message, mem, scoring) ==
  [fn |-> "_extract_entities_llm",
   arg |-> [user_message |-> user_message, memory |-> mem, scoring |-> scoring],
   result |-> [consulted |-> mem # << >>,
               is_relevant |-> GateResult(user_message, mem, scoring),
               messages |-> ExtractorMessages(user_message, mem,
                                              GateResult(user_message, mem, scoring))]]

\* _extract_entities_llm on its own: any short memory list, contents empty
\* and blank included, any query
GateContents == {<< "" >>, << " " >>, << "a" >>, << "b" >>}
GateMessages == [role : {"user", "assistant"}, content : GateContents]
GateMemories == UNION {[1..n -> GateMessages] : n \in 0..MaxGateMem}
GateQueries == {<< "" >>, << "a" >>, << "c" >>}

ExtractEntitiesLLM ==
  /\ \E user_message \in GateQueries, mem \in GateMemories, scoring \in Scorings :
       parsed' = ExtractorCall(user_message, mem, scoring)
  /\ UNCHANGED << current_context, memory, updated_keys_this_turn, turns, last_turn,
                  max_messages, mem_added, mem_ops, search_ran >>

GateNext == ExtractEntitiesLLM

SpecGate == Init /\ [][GateNext]_vars

\* process_message with the request to the extractor observed: the user
\* message goes to the memory, then _extract_entities_llm reads the memory
ExtractInputs ==
  {NoEntities, FallbackError, WithFlag(NoEntities, "is_reset"),
   WithFilter(NoEntities, "brand", "Honda")}

ExtractingTurn_ExtractsBeforeAppend ==
  /\ turns < MaxExtractTurns
  /\ \E e \in ExtractInputs, scoring \in Scorings :
       /\ ProcessTurn(e, TRUE)
       /\ parsed' = ExtractorCall(UserText(turns + 1), memory, scoring)

ExtractingTurn ==
  /\ turns < MaxExtractTurns
  /\ \E e \in ExtractInputs, scoring \in Scorings :
       /\ ProcessTurn(e, TRUE)
       /\ parsed' = ExtractorCall(UserText(turns + 1),
                                  add_message(memory, AgentMaxMessages, "user", UserText(turns + 1)),
                                  scoring)

ExtractNext == ExtractingTurn

SpecExtract == Init /\ [][ExtractNext]_vars

(***************************************************************************)
(* Properties.  last_turn records the turn just processed: the context it  *)
(* started from (before), the entities it carried (e), the call of         *)
(* _update_context_with_entities it made (upd), the action asked for and   *)
(* the action run, the lookups made and the response returned.             *)
(***************************************************************************)
IsTurn == last_turn.op = "process_message"

Ops(lookups) == {lookups[i].op : i \in 1..Len(lookups)}

AskTemplates == {"ask_next_question", "acknowledge_and_ask"}

\* C1: whenever the context update of a normal-flow turn leaves the model
\* filter set and the brand filter unset, the action run in that turn is
\* clarify_model: no catalog search is made and no question is asked, also
\* when the selector had chosen search.
C1_ModelWithoutBrandIsClarified ==
  (/\ IsTurn /\ last_turn.upd.called
   /\ Truthy(last_turn.upd.after.filters["model"])
   /\ ~Truthy(last_turn.upd.after.filters["brand"]))
  => /\ last_turn.executed = << "clarify_model" >>
     /\ "search" \notin Ops(last_turn.lookups)
     /\ last_turn.response[1] \notin AskTemplates

\* the selector chose search on another field's change and clarify_model ran
C1_Witness_SearchBecameClarify ==
  /\ IsTurn /\ last_turn.upd.called
  /\ Truthy(last_turn.upd.after.filters["model"])
  /\ ~Truthy(last_turn.upd.after.filters["brand"])
  /\ last_turn.requested = "search"
  /\ last_turn.executed = << "clarify_model" >>

\* C2: a call of _update_context_with_entities made with a model filter set
\* and carrying a brand that is non-null and differs from the stored brand
\* ends with the model filter null and asked_model not in asked_questions.
C2_BrandChangeRevokesModel ==
  (/\ IsTurn /\ last_turn.upd.called
   /\ last_turn.upd.before.filters["model"] # NULL
   /\ last_turn.e.f["brand"] # NULL
   /\ last_turn.e.f["brand"] # last_turn.upd.before.filters["brand"])
  => /\ last_turn.upd.after.filters["brand"] = last_turn.e.f["brand"]
     /\ last_turn.upd.after.filters["model"] = NULL
     /\ "asked_model" \notin last_turn.upd.after.asked_questions

\* a stored model, flagged as asked, met a different brand
C2_Witness_BrandReplaced ==
  /\ IsTurn /\ last_turn.upd.called
  /\ last_turn.upd.before.filters["model"] # NULL
  /\ last_turn.upd.before.filters["brand"] # NULL
  /\ "asked_model" \in last_turn.upd.before.asked_questions
  /\ last_turn.e.f["brand"] # NULL
  /\ last_turn.e.f["brand"] # last_turn.upd.before.filters["brand"]

\* every value the entities carry is the value the context already holds
AllValuesStored(ctx, e) ==
  /\ \A k \in EntityFilterKeys : e.f[k] # NULL => ctx.filters[k] = e.f[k]
  /\ e.first_name # NULL => ctx.customer_first_name = e.first_name
  /\ e.has_phone => ctx.customer_phone = e.phone

\* C3: a call of _update_context_with_entities whose entities all equal the
\* stored values changes no context field, returns false and leaves
\* last_acknowledged_info null; a second call with the same entities gives
\* the same context.
C3_UnchangedEntitiesClearAcknowledgment ==
  (/\ IsTurn /\ last_turn.upd.called
   /\ AllValuesStored(last_turn.upd.before, last_turn.e))
  => /\ ~last_turn.updated
     /\ last_turn.upd.after =
          [last_turn.upd.before EXCEPT !.last_acknowledged_info = {}]
     /\ update_context_with_entities(last_turn.upd.after, {}, last_turn.e).ctx
          = last_turn.upd.after

SetFilters(ctx) == {k \in FilterKeys : ctx.filters[k] # NULL}

\* C5: _should_search is true exactly when one of brand, model, engine_type,
\* body_type, transmission is set, or one of min_price, max_price, or one of
\* min_year, max_year; one criterion is enough and no criterion is not.
C5_SearchableIffOneCriterion ==
  should_search(current_context)
    <=> \/ \E k \in {"brand", "model", "engine_type", "body_type", "transmission"} :
             current_context.filters[k] # NULL
        \/ current_context.filters["min_price"] # NULL
        \/ current_context.filters["max_price"] # NULL
        \/ current_context.filters["min_year"] # NULL
        \/ current_context.filters["max_year"] # NULL

\* a search ran on a context whose only criterion is an upper year bound
C5_Witness_SingleYearBound ==
  /\ IsTurn
  /\ SetFilters(current_context) = {"max_year"}
  /\ should_search(current_context)
  /\ last_turn.executed = << "search" >>

LastN(seq, n) ==
  IF Len(seq) <= n THEN seq ELSE SubSeq(seq, Len(seq) - n + 1, Len(seq))

\* C6: after any sequence of add_message and clear_memory calls on a
\* MemoryManager built with max_turns = N the memory holds at most 2N
\* entries, and they are the latest non-empty messages added, oldest first.
C6_MemoryIsBoundedRecentSuffix ==
  /\ Len(memory) <= max_messages
  /\ memory = LastN(mem_added, max_messages)

\* more messages were added than fit, and the oldest ones are gone
C6_Witness_OldestEvicted ==
  /\ max_messages > 0
  /\ Len(mem_added) > max_messages + 1
  /\ Len(memory) = max_messages
  /\ memory[1] # mem_added[1]

CustomerFields ==
  {"customer_id", "customer_first_name", "customer_phone", "customer_desired_car"}

\* the brands and models of the stored candidates
CandidateBrands(ctx) ==
  IF ctx.potential_model_matches = NULL THEN {}
  ELSE {Some(Catalog[ctx.potential_model_matches[i]].brand) :
          i \in 1..Len(ctx.potential_model_matches)}

CandidateModels(ctx) ==
  IF ctx.potential_model_matches = NULL THEN {}
  ELSE {Some(Catalog[ctx.potential_model_matches[i]].model) :
          i \in 1..Len(ctx.potential_model_matches)}

\* C7: a turn that starts in the awaiting state is handled by the
\* confirmation handler alone (once its entities are extracted): whatever
\* flags, phone number or filter values it carries, there is no reset, no
\* catalog or customer lookup, and none of the carried values is merged into
\* the context.
C7_AwaitingTurnConsultsOnlyConfirmation ==
  (IsTurn /\ last_turn.before.awaiting_model_confirmation)
  => /\ ~ExtractionRaises(last_turn.e)
          => /\ last_turn.route = "confirmation"
             /\ last_turn.executed = << "handle_model_confirmation" >>
     /\ ~last_turn.upd.called /\ ~last_turn.reset
     /\ last_turn.lookups = << >>
     /\ \A k \in FilterKeys \ {"brand", "model"} :
          current_context.filters[k] = last_turn.before.filters[k]
     /\ current_context.filters["brand"]
          \in {last_turn.before.filters["brand"]} \cup CandidateBrands(last_turn.before)
     /\ current_context.filters["model"]
          \in {NULL, last_turn.before.filters["model"]} \cup CandidateModels(last_turn.before)
     /\ \A c \in CustomerFields : current_context[c] = last_turn.before[c]
     /\ current_context.asked_questions
          \subseteq last_turn.before.asked_questions \cup {"asked_brand", "asked_model"}
     /\ Len(memory) >= 2
     /\ memory[Len(memory) - 1] = [role |-> "user", content |-> last_turn.text]

\* an awaiting turn carried is_reset together with a brand no candidate has
C7_Witness_ResetAndBrandIgnored ==
  /\ IsTurn /\ last_turn.before.awaiting_model_confirmation
  /\ "is_reset" \in last_turn.e.flags
  /\ last_turn.e.f["brand"] # NULL
  /\ last_turn.e.f["brand"] \notin CandidateBrands(last_turn.before)
  /\ last_turn.before.asked_questions # {}

\* C8: a turn that starts in the awaiting state ends with
\* awaiting_model_confirmation false and potential_model_matches null,
\* whether the confirmation is yes, no or absent.
C8_AwaitingEndsWithTheTurn ==
  (IsTurn /\ last_turn.before.awaiting_model_confirmation)
  => /\ ~current_context.awaiting_model_confirmation
     /\ current_context.potential_model_matches = NULL

\* an awaiting turn without a confirmation value
C8_Witness_NoConfirmationValue ==
  /\ IsTurn /\ last_turn.before.awaiting_model_confirmation
  /\ last_turn.before.potential_model_matches # NULL
  /\ last_turn.e.confirmation = NULL
  /\ ~last_turn.raised

\* C9: in the awaiting state a turn with confirmation yes that completes
\* sets the brand and model filters to those of the first stored candidate,
\* adds asked_brand and asked_model, and changes no other filter.
C9_YesAdoptsFirstCandidate ==
  (/\ IsTurn /\ last_turn.before.awaiting_model_confirmation
   /\ last_turn.e.confirmation = Some("yes") /\ ~last_turn.raised)
  => /\ last_turn.before.potential_model_matches # NULL
     /\ LET first == Catalog[last_turn.before.potential_model_matches[1]]
        IN /\ current_context.filters["brand"] = Some(first.brand)
           /\ current_context.filters["model"] = Some(first.model)
     /\ current_context.asked_questions
          = last_turn.before.asked_questions \cup {"asked_brand", "asked_model"}
     /\ \A k \in FilterKeys \ {"brand", "model"} :
          current_context.filters[k] = last_turn.before.filters[k]

\* yes was given to candidates of two brands
C9_Witness_CandidatesOfTwoBrands ==
  /\ IsTurn /\ last_turn.before.awaiting_model_confirmation
  /\ last_turn.e.confirmation = Some("yes") /\ ~last_turn.raised
  /\ Cardinality(CandidateBrands(last_turn.before)) = 2

\* C10: a turn flagged is_reset, outside the awaiting state and without a
\* similarity flag, leaves the initial context, a memory without any earlier
\* message, and returns the confirm_reset message, whatever else it carries.
C10_ResetRestoresInitialContext ==
  (/\ IsTurn /\ "is_reset" \in last_turn.e.flags
   /\ ~last_turn.before.awaiting_model_confirmation
   /\ "is_similarity_request" \notin last_turn.e.flags)
  => /\ current_context = [FreshContext EXCEPT !.last_response = Resp("confirm_reset", "")]
     /\ last_turn.response = Resp("confirm_reset", "")
     /\ memory = << [role |-> "assistant", content |-> Resp("confirm_reset", "")] >>

\* a reset that carried a known phone number wiped filters and messages
C10_Witness_ResetWithPhone ==
  /\ IsTurn /\ "is_reset" \in last_turn.e.flags
  /\ ~last_turn.before.awaiting_model_confirmation
  /\ last_turn.e.has_phone
  /\ SetFilters(last_turn.before) # {}
  /\ last_turn.before.asked_questions # {}
  /\ turns >= 3

Apology == Resp("error_fallback", "")

\* C11: a turn in which a step raised (the extraction, or the confirmation
\* handler on a failing database) still returns: its response is the fixed
\* error_fallback text, the context is left not awaiting a confirmation and
\* without candidates, and the apology is the last entry of the memory.
C11_FailureYieldsApology ==
  (IsTurn /\ last_turn.raised)
  => /\ last_turn.response = Apology
     /\ ~current_context.awaiting_model_confirmation
     /\ current_context.potential_model_matches = NULL
     /\ Len(memory) >= 1
     /\ memory[Len(memory)] = [role |-> "assistant", content |-> Apology]

\* the confirmation handler raised while candidates were pending
C11_Witness_RaisedWhileAwaiting ==
  /\ IsTurn /\ last_turn.raised
  /\ last_turn.before.awaiting_model_confirmation
  /\ last_turn.before.potential_model_matches # NULL
  /\ last_turn.executed = << "handle_model_confirmation" >>

\* C12: a turn whose entities come from the keyword fallback, because the
\* extractor failed, is answered with a normal response and never with the
\* error apology.
C12_FallbackNeverApologises ==
  (IsTurn /\ last_turn.e.source \in {"fallback", "fallback_error"})
  => last_turn.response # Apology

\* C13: after every turn the last memory entry is the assistant response the
\* turn returned; unless the turn reset the context the entry before it is
\* the turn's user message, and after a reset the response is the only entry.
C13_MemoryEndsWithTheExchange ==
  IsTurn
  => /\ Len(memory) >= 1
     /\ memory[Len(memory)] = [role |-> "assistant", content |-> last_turn.response]
     /\ ~last_turn.reset
          => /\ Len(memory) >= 2
             /\ memory[Len(memory) - 1] = [role |-> "user", content |-> last_turn.text]
     /\ last_turn.reset => Len(memory) = 1

\* a 'no' after shown results reset the context in the third turn
C13_Witness_ResetByRefusal ==
  /\ IsTurn /\ last_turn.reset /\ turns >= 3
  /\ last_turn.e.confirmation = Some("no")
  /\ last_turn.before.results_shown

IsSimilarityRequest == IsTurn /\ "is_similarity_request" \in last_turn.e.flags

ContextMissing == Resp("similarity_context_missing", "")

\* C14: outside the awaiting state a similarity request runs the find_similar
\* lookup exactly when results were shown and the anchor price, model and
\* brand are all set at the start of the turn; otherwise the turn answers
\* similarity_context_missing, makes no lookup and changes nothing in the
\* context but last_response.
C14_SimilarityNeedsShownAnchor ==
  (IsSimilarityRequest /\ ~last_turn.before.awaiting_model_confirmation)
  => IF last_turn.before.results_shown /\ AnchorSet(last_turn.before)
     THEN /\ last_turn.executed = << "find_similar" >>
          /\ last_turn.lookups = << Lookup("find_similar", EmptyFilters) >>
     ELSE /\ last_turn.executed = << >>
          /\ last_turn.lookups = << >>
          /\ last_turn.response = ContextMissing
          /\ current_context = [last_turn.before EXCEPT !.last_response = ContextMissing]

\* results were shown by list_all, which leaves no anchor
C14_Witness_ShownWithoutAnchor ==
  /\ IsSimilarityRequest /\ ~last_turn.before.awaiting_model_confirmation
  /\ last_turn.before.results_shown /\ ~AnchorSet(last_turn.before)
  /\ last_turn.response = ContextMissing

CustomerAndFiltersKept ==
  /\ current_context.filters = last_turn.before.filters
  /\ current_context.asked_questions = last_turn.before.asked_questions
  /\ \A c \in CustomerFields : current_context[c] = last_turn.before[c]

CarriesValues(e) == e.has_phone \/ \E k \in EntityFilterKeys : e.f[k] # NULL

\* C15 as stated: every turn flagged is_similarity_request that carries
\* filter values or a phone number leaves filters, asked_questions and the
\* customer fields as they were.
C15_SimilarityTurnKeepsContext ==
  (IsSimilarityRequest /\ CarriesValues(last_turn.e)) => CustomerAndFiltersKept

\* C15 amended: outside the awaiting state, such a turn takes the similarity
\* route only: no context update, no customer lookup, and filters,
\* asked_questions and the customer fields are as they were.
C15_SimilarityTurnKeepsContextUnlessAwaiting ==
  (IsSimilarityRequest /\ CarriesValues(last_turn.e)
     /\ ~last_turn.before.awaiting_model_confirmation)
  => /\ last_turn.route = "similarity"
     /\ ~last_turn.upd.called
     /\ "find_customer" \notin Ops(last_turn.lookups)
     /\ CustomerAndFiltersKept

\* a similarity request brought a brand other than the stored one
C15_Witness_NewBrandIgnored ==
  /\ IsSimilarityRequest /\ ~last_turn.before.awaiting_model_confirmation
  /\ last_turn.e.f["brand"] # NULL
  /\ last_turn.e.f["brand"] # last_turn.before.filters["brand"]
  /\ last_turn.executed = << "find_similar" >>

PriceParsed == parsed.fn = "_parse_price"

HasNoDigit(price_val) ==
  price_val.kind = "str" /\ \A i \in 1..Len(price_val.chars) : ~IsDigit(price_val.chars[i])

\* C16: _parse_price gives the number written in a price string times the
\* multiplier of its unit: 500000 for "500 bin TL", 2500000 for "2.5 milyon",
\* and null for a string without a digit.
C16_ParsePriceScalesTheNumber ==
  PriceParsed
  => /\ parsed.arg = Str(<< "5", "0", "0", " ", "b", "i", "n", " ", "T", "L" >>)
          => parsed.result = Some(500000)
     /\ parsed.arg = Str(<< "2", ".", "5", " ", "m", "i", "l", "y", "o", "n" >>)
          => parsed.result = Some(2500000)
     /\ HasNoDigit(parsed.arg) => parsed.result = NULL

\* the extractor gave a phone_number that _normalize_phone rejected
MalformedPhoneTurn == IsTurn /\ last_turn.e.has_phone /\ last_turn.e.phone = NULL

WithoutPhone(e) == [e EXCEPT !.has_phone = FALSE, !.phone = NULL]

\* C17: a turn whose phone number is malformed leaves customer_phone as it
\* was, and its context update changes and reports exactly what it would
\* without the phone field: the field is dropped, not read as a cleared value.
C17_MalformedPhoneIsDropped ==
  MalformedPhoneTurn
  => /\ current_context.customer_phone = last_turn.before.customer_phone
     /\ "phone" \notin updated_keys_this_turn
     /\ last_turn.upd.called
          => /\ last_turn.upd.after =
                  update_context_with_entities(last_turn.upd.before, {},
                                               WithoutPhone(last_turn.e)).ctx
             /\ last_turn.updated =
                  update_context_with_entities(last_turn.upd.before, {},
                                               WithoutPhone(last_turn.e)).updated

\* what the lookup of a find_similar turn returns for the anchor of ctx
SimilarToAnchor(ctx, dbok) ==
  find_similar_priced_cars(Get(ctx.last_shown_target_price), Get(ctx.last_shown_target_brand),
                           Get(ctx.last_shown_target_model), SearchLimit, dbok)

WithinTolerance(price, target) ==
  /\ 100 * price >= (100 - TolerancePct) * target
  /\ 100 * price <= (100 + TolerancePct) * target

SimilarToTarget(found, target, brand, model) ==
  /\ Len(found) <= SearchLimit
  /\ \A i \in 1..Len(found) :
       /\ found[i] \in CarIds
       /\ WithinTolerance(Catalog[found[i]].price, target)
       /\ ~(Catalog[found[i]].brand = brand /\ Catalog[found[i]].model = model)
  /\ \A i, j \in 1..Len(found) :
       i < j => /\ found[i] # found[j]
                /\ Abs(Catalog[found[i]].price - target) <= Abs(Catalog[found[j]].price - target)

FindSimilarTurn ==
  IsTurn /\ last_turn.executed = << "find_similar" >> /\ AnchorSet(last_turn.before)

\* C18: the similar-price lookup of a find_similar turn returns only cars
\* priced within 15% of the anchor price, never the anchor's own brand and
\* model, nearest price first and at most the limit; a turn that shows
\* similar results had such cars to show.
C18_SimilarCarsAreNearTheAnchor ==
  FindSimilarTurn
  => /\ \A dbok \in BOOLEAN :
          SimilarToTarget(SimilarToAnchor(last_turn.before, dbok),
                          Get(last_turn.before.last_shown_target_price),
                          Get(last_turn.before.last_shown_target_brand),
                          Get(last_turn.before.last_shown_target_model))
     /\ last_turn.response = Resp("show_similar_results", "")
          => SimilarToAnchor(last_turn.before, TRUE) # << >>

\* similar cars were shown while other cars of the catalog were too far from
\* the anchor price
C18_Witness_SomeCarsTooFar ==
  /\ FindSimilarTurn
  /\ last_turn.response = Resp("show_similar_results", "")
  /\ \E c \in CarIds :
       ~WithinTolerance(Catalog[c].price, Get(last_turn.before.last_shown_target_price))
  /\ Len(SimilarToAnchor(last_turn.before, TRUE)) < Cardinality(CarIds) - 1

IsProactiveStart == last_turn.op = "generate_proactive_start_message"

CannedGreeting == Resp("greeting", "")

\* the context and memory a proactive start leaves depend on the lead and the
\* database only, and carry the lead's identity
SeededFor(lead) ==
  /\ current_context.customer_id = Some(lead.id)
  /\ current_context.customer_first_name = Some(lead.first_name)
  /\ current_context.customer_phone = Some(lead.phone)
  /\ current_context.customer_desired_car = Some(lead.desired_car_info)
  /\ current_context.initial_personalized_greeting_done
  /\ current_context.asked_questions = {}
  /\ current_context.last_acknowledged_info = {}
  /\ ~current_context.awaiting_model_confirmation
  /\ \A k \in FilterKeys \ ParsedKeys : current_context.filters[k] = NULL
  /\ \E dbok \in BOOLEAN :
       current_context = generate_proactive_start_message(<< >>, lead, dbok).ctx
  /\ memory = << [role |-> "assistant", content |-> last_turn.response] >>
  /\ last_turn.response[1] = "proactive_greeting_intro"

AfterProactiveStart == IsTurn /\ last_turn.lead # 0

\* C19 as stated: a proactive start leaves a fresh context seeded with the
\* lead and the composite greeting as the only memory entry, and no later
\* turn answers an is_greeting flag with the canned greeting.
C19_ProactiveStartEndsGreetings ==
  /\ IsProactiveStart => SeededFor(Leads[last_turn.lead])
  /\ (AfterProactiveStart /\ "is_greeting" \in last_turn.e.flags)
       => last_turn.response # CannedGreeting

\* C19 amended: the same start, and no later turn answers an is_greeting
\* flag with the canned greeting as long as the flag set by the start is
\* still set when the turn begins and the turn brings no other phone number
\* (a reset and a change of customer both clear the flag).
C19_ProactiveStartEndsGreetingsUntilReset ==
  /\ IsProactiveStart => SeededFor(Leads[last_turn.lead])
  /\ (AfterProactiveStart /\ "is_greeting" \in last_turn.e.flags
        /\ last_turn.before.initial_personalized_greeting_done
        /\ ~NeedsIdentification(last_turn.before, last_turn.e))
       => /\ last_turn.response # CannedGreeting
          /\ last_turn.requested # "greeting"

\* a proactive start replaced a context that held filters and another
\* customer's phone number
C19_Witness_StartOverOldContext ==
  /\ IsProactiveStart
  /\ SetFilters(last_turn.before) # {}
  /\ last_turn.before.customer_phone # NULL
  /\ last_turn.before.customer_phone # current_context.customer_phone
  /\ current_context.results_shown

\* after a proactive start a greeting came with nothing else in the turn and
\* got an answer of the normal flow
C19_Witness_GreetingNotRepeated ==
  /\ AfterProactiveStart /\ last_turn.e.flags = {"is_greeting"}
  /\ last_turn.before.initial_personalized_greeting_done
  /\ last_turn.route = "normal"

\* a normal-flow turn ran clarify_model; the context the action started from
\* is the one the context update left
ClarifyTurn ==
  IsTurn /\ last_turn.executed = << "clarify_model" >> /\ last_turn.upd.called

\* what the catalog holds for the model being clarified
ClarifyMatches(ctx) == find_cars_by_criteria(ClarificationFilters(ctx), ClarifyLimit, TRUE)

ModelNotFound ==
  /\ ~current_context.awaiting_model_confirmation
  /\ current_context.potential_model_matches = NULL
  /\ current_context.filters["model"] = NULL
  /\ last_turn.response = Resp("model_not_found_ask_brand", "")

ModelMatchesStored(pre) ==
  /\ current_context.awaiting_model_confirmation
  /\ current_context.potential_model_matches = ClarifyMatches(pre)
  /\ ClarifyMatches(pre) # << >>
  /\ current_context.filters["model"] = pre.filters["model"]
  /\ last_turn.response[1] \in {"confirm_model_match", "confirm_multiple_model_match"}

\* C20: clarify_model with no match (none in the catalog, or the lookup
\* failed) clears the model filter and does not await a confirmation; with
\* matches it stores them, awaits the confirmation and keeps the model
\* filter; either way every other filter is as the action found it.
C20_ClarifyStoresMatchesOrClearsModel ==
  ClarifyTurn
  => /\ \A k \in FilterKeys \ {"model"} :
          current_context.filters[k] = last_turn.upd.after.filters[k]
     /\ ModelMatchesStored(last_turn.upd.after) \/ ModelNotFound
     /\ ClarifyMatches(last_turn.upd.after) = << >> => ModelNotFound

\* a model the catalog does not have came with an engine type: the model
\* was cleared and the engine type kept
C20_Witness_UnknownModelCleared ==
  /\ ClarifyTurn /\ ModelNotFound
  /\ ClarifyMatches(last_turn.upd.after) = << >>
  /\ last_turn.upd.after.filters["model"] # NULL
  /\ current_context.filters["engine_type"] # NULL

\* a model two brands offer was stored as two candidates
C20_Witness_TwoCandidatesStored ==
  /\ ClarifyTurn /\ ModelMatchesStored(last_turn.upd.after)
  /\ Len(current_context.potential_model_matches) = 2

\* a turn that starts in the awaiting state and whose entities were extracted
AwaitingTurn ==
  IsTurn /\ last_turn.before.awaiting_model_confirmation /\ ~ExtractionRaises(last_turn.e)

\* C21: in the awaiting state a turn whose confirmation is 'no', absent or
\* any value other than 'yes' clears the model filter and leaves every other
\* filter (the brand is unset and stays so), asked_questions and the
\* customer fields as they were; the state is no longer awaiting and the
\* response asks for brand and model afresh.
C21_DeclinedConfirmationClearsOnlyModel ==
  (AwaitingTurn /\ last_turn.e.confirmation # Some("yes"))
  => /\ current_context.filters = [last_turn.before.filters EXCEPT !["model"] = NULL]
     /\ last_turn.before.filters["model"] # NULL
     /\ last_turn.before.filters["brand"] = NULL
     /\ current_context.filters["brand"] = NULL
     /\ current_context.asked_questions = last_turn.before.asked_questions
     /\ \A c \in CustomerFields : current_context[c] = last_turn.before[c]
     /\ ~current_context.awaiting_model_confirmation
     /\ last_turn.response =
          Resp("clarification_needed_after_no",
               IF last_turn.e.confirmation = Some("no") THEN "" ELSE "yes_no_please")

\* 'no' came together with a brand while another filter and an asked flag
\* were stored
C21_Witness_NoWithBrandAndOtherFilter ==
  /\ AwaitingTurn /\ last_turn.e.confirmation = Some("no")
  /\ last_turn.e.f["brand"] # NULL
  /\ SetFilters(last_turn.before) \ {"model"} # {}
  /\ last_turn.before.asked_questions # {}

\* the confirmation value was neither 'yes' nor 'no'
C21_Witness_OtherValue ==
  /\ AwaitingTurn /\ last_turn.e.confirmation = Some("maybe")
  /\ last_turn.response = Resp("clarification_needed_after_no", "yes_no_please")

\* the brand filter changed in the turn's context update
BrandChangedInUpdate ==
  last_turn.upd.after.filters["brand"] # last_turn.upd.before.filters["brand"]

\* C22: after a context update every filter the entities supplied holds the
\* supplied value, except that model is null when the brand changed in the
\* update and a model was set before it; entities with a brand and a model,
\* applied to a context without a model, leave both filters as supplied.
C22_SuppliedValuesAreStored ==
  (IsTurn /\ last_turn.upd.called)
  => /\ \A k \in EntityFilterKeys :
          last_turn.e.f[k] # NULL
            => IF k = "model" /\ BrandChangedInUpdate
                  /\ last_turn.upd.before.filters["model"] # NULL
               THEN last_turn.upd.after.filters["model"] = NULL
               ELSE last_turn.upd.after.filters[k] = last_turn.e.f[k]
     /\ (/\ last_turn.e.f["brand"] # NULL /\ last_turn.e.f["model"] # NULL
         /\ last_turn.upd.before.filters["model"] = NULL)
        => /\ last_turn.upd.after.filters["brand"] = last_turn.e.f["brand"]
           /\ last_turn.upd.after.filters["model"] = last_turn.e.f["model"]

\* a turn that went through the context update of the normal flow
NormalFlowTurn == IsTurn /\ last_turn.route = "normal" /\ last_turn.upd.called

\* the update left a filter or a customer field other than it found it
FieldsChanged ==
  \/ last_turn.upd.after.filters # last_turn.upd.before.filters
  \/ last_turn.upd.after.customer_first_name # last_turn.upd.before.customer_first_name
  \/ last_turn.upd.after.customer_phone # last_turn.upd.before.customer_phone

ModelWithoutBrand(ctx) == Truthy(ctx.filters["model"]) /\ ~Truthy(ctx.filters["brand"])

\* C23: in the normal flow, when the context update changed a filter or a
\* customer field and the updated filters do not hold a model without a
\* brand, the action run is search if the updated filters meet the minimum
\* criteria and ask otherwise, whatever confirmation the turn carries; the
\* search is made with the updated filters.  The update reports a change
\* exactly when a filter, the first name or the phone changed.
C23_ChangeSelectsSearchOrAsk ==
  NormalFlowTurn
  => /\ last_turn.updated <=> FieldsChanged
     /\ (FieldsChanged /\ ~ModelWithoutBrand(last_turn.upd.after))
        => IF should_search(last_turn.upd.after)
           THEN /\ last_turn.requested = "search"
                /\ last_turn.executed = << "search" >>
                /\ last_turn.lookups[Len(last_turn.lookups)]
                     = Lookup("search", last_turn.upd.after.filters)
           ELSE /\ last_turn.requested = "ask"
                /\ last_turn.executed = << "ask" >>
                /\ "search" \notin Ops(last_turn.lookups)

\* only the first name changed, after a search had run for the filters: the
\* search ran again
C23_Witness_NameAloneSearches ==
  /\ NormalFlowTurn /\ FieldsChanged
  /\ last_turn.upd.after.filters = last_turn.upd.before.filters
  /\ last_turn.upd.after.customer_phone = last_turn.upd.before.customer_phone
  /\ last_turn.upd.before.search_performed
  /\ last_turn.executed = << "search" >>

\* only a customer field changed and no filter is set: a question is asked
C23_Witness_NameAloneAsks ==
  /\ NormalFlowTurn /\ FieldsChanged
  /\ last_turn.upd.after.filters = EmptyFilters
  /\ last_turn.executed = << "ask" >>

\* a normal-flow turn in which no field changed and no confirmation was
\* given, on filters that meet the minimum criteria
IdleSearchableTurn ==
  /\ NormalFlowTurn /\ ~FieldsChanged
  /\ last_turn.e.confirmation \notin {Some("yes"), Some("no")}
  /\ should_search(last_turn.upd.after)
  /\ ~ModelWithoutBrand(last_turn.upd.after)

\* C24: in a normal-flow turn without a field change and without a
\* confirmation, on filters that meet the minimum criteria, the catalog
\* search runs only if no search has run since the filters last changed or
\* the context was reset; once one has run, the turn chooses ask.
C24_SearchIsNotRepeated ==
  IdleSearchableTurn
  => /\ "search" \in Ops(last_turn.lookups) => ~last_turn.searched
     /\ last_turn.searched => last_turn.executed = << "ask" >>

\* a normal-flow turn without a field change that says yes to shown results
YesToShownResults ==
  /\ NormalFlowTurn /\ ~FieldsChanged
  /\ last_turn.e.confirmation = Some("yes")
  /\ last_turn.upd.after.results_shown

WaitYesPrompt == Resp("wait_yes_prompt", "")

CatalogOps == {"search", "list_all", "find_similar", "clarify_model"}

WaitedAfterYes ==
  /\ last_turn.requested = "wait" /\ last_turn.executed = << "wait" >>
  /\ Ops(last_turn.lookups) \cap CatalogOps = {}
  /\ current_context.filters = last_turn.before.filters
  /\ current_context.asked_questions = last_turn.before.asked_questions
  /\ last_turn.response = WaitYesPrompt
  /\ current_context.last_response = WaitYesPrompt

\* C25 as stated: every normal-flow turn with no field change, confirmation
\* 'yes' and results_shown true runs wait: no catalog lookup, filters and
\* asked_questions unchanged, and the response is the selector's prompt.
C25_YesAfterResultsWaits == YesToShownResults => WaitedAfterYes

\* C25 amended: the same, for turns whose filters do not hold a model
\* without a brand (those are clarified first).
C25_YesAfterResultsWaitsUnlessClarifying ==
  (YesToShownResults /\ ~ModelWithoutBrand(last_turn.upd.after)) => WaitedAfterYes

\* yes was said to results of a search made with filters and asked flags
C25_Witness_YesToSearchResults ==
  /\ YesToShownResults /\ WaitedAfterYes
  /\ AnchorSet(last_turn.before)
  /\ SetFilters(last_turn.before) # {}

\* a similarity request that follows a 'yes' answered with the wait prompt,
\* itself given to the results of a catalog search
SimilarityAfterWait ==
  /\ IsSimilarityRequest /\ ~last_turn.before.awaiting_model_confirmation
  /\ last_turn.prev.executed = << "wait" >>
  /\ last_turn.prev.response = WaitYesPrompt
  /\ last_turn.prev.shown /\ last_turn.prev.cars # NULL

\* C26: after a search that showed results, a turn with confirmation 'yes'
\* (wait, which offers alternatives) followed by a similarity request runs
\* the similar-price lookup; the request is not answered with
\* similarity_context_missing.
C26_SimilarityAfterWaitFindsSimilar ==
  SimilarityAfterWait
  => /\ last_turn.executed = << "find_similar" >>
     /\ "find_similar" \in Ops(last_turn.lookups)
     /\ last_turn.response # ContextMissing

\* a normal-flow turn without a field change that says no to shown results
NoToShownResults ==
  /\ NormalFlowTurn /\ ~FieldsChanged
  /\ last_turn.e.confirmation = Some("no")
  /\ last_turn.upd.after.results_shown

WaitNoPrompt == Resp("wait_no_prompt", "")

ResetForNewCriteria ==
  /\ last_turn.reset
  /\ current_context = [FreshContext EXCEPT !.last_response = WaitNoPrompt]
  /\ memory = << [role |-> "assistant", content |-> WaitNoPrompt] >>
  /\ last_turn.response = WaitNoPrompt
  /\ last_turn.executed = << "wait" >>
  /\ Ops(last_turn.lookups) \cap CatalogOps = {}

\* C27 as stated: every normal-flow turn with no field change, confirmation
\* 'no' and results_shown true leaves the initial context (no filter, no
\* asked flag, no anchor, no customer) and a memory without any earlier
\* message, answers with the prompt for new criteria and makes no catalog
\* lookup.
C27_NoAfterResultsResets == NoToShownResults => ResetForNewCriteria

\* C27 amended: the same, for turns whose filters do not hold a model
\* without a brand (those are clarified first).
C27_NoAfterResultsResetsUnlessClarifying ==
  (NoToShownResults /\ ~ModelWithoutBrand(last_turn.upd.after)) => ResetForNewCriteria

\* no was said by an identified customer to results shown for stored filters
C27_Witness_NoByKnownCustomer ==
  /\ NoToShownResults /\ ResetForNewCriteria
  /\ last_turn.before.customer_id # NULL
  /\ SetFilters(last_turn.before) # {}
  /\ AnchorSet(last_turn.before)

\* no was said to results shown in a longer conversation, with asked flags
\* and filters stored
C27_Witness_NoAfterQuestions ==
  /\ NoToShownResults /\ ResetForNewCriteria
  /\ last_turn.upd.before.asked_questions # {}
  /\ SetFilters(last_turn.before) # {}
  /\ turns >= 3

ImmediateFlags == {"is_reset", "is_farewell", "is_greeting", "is_list_all"}

\* a greeting can be honored: nothing is known yet
GreetingHonorable(ctx) ==
  /\ \A k \in FilterKeys : ctx.filters[k] = NULL
  /\ ctx.customer_id = NULL
  /\ ~ctx.initial_personalized_greeting_done

\* list_all can be honored: the turn extracted no filter field
ListAllHonorable(e) == \A k \in EntityFilterKeys : e.f[k] = NULL

\* the first intent of the order reset, farewell, greeting, list_all whose
\* flag is set and which can be honored
FirstHonorable(ctx, e) ==
  IF "is_reset" \in e.flags THEN "reset"
  ELSE IF "is_farewell" \in e.flags THEN "farewell"
  ELSE IF "is_greeting" \in e.flags /\ GreetingHonorable(ctx) THEN "greeting"
  ELSE IF "is_list_all" \in e.flags /\ ListAllHonorable(e) THEN "list_all"
  ELSE "none"

\* a turn that reaches the immediate intents with more than one flag set
SeveralIntentsTurn ==
  /\ IsTurn /\ ~ExtractionRaises(last_turn.e)
  /\ ~last_turn.before.awaiting_model_confirmation
  /\ "is_similarity_request" \notin last_turn.e.flags
  /\ Cardinality(last_turn.e.flags \cap ImmediateFlags) >= 2

\* the turn acted on intent x alone ("none": it went on to the normal flow)
ActedOn(x) ==
  IF x = "none" THEN last_turn.route = "normal"
  ELSE last_turn.route = "immediate" /\ last_turn.requested = x

\* C28: a turn with several immediate-intent flags acts on exactly one
\* intent, the first of reset, farewell, greeting, list_all that can be
\* honored (the context is the one the customer identification left); an
\* intent that cannot be honored is skipped and the next one considered, so
\* a greeting that is not honored does not block a list_all of the same turn.
C28_FirstHonorableIntentIsActedOn ==
  SeveralIntentsTurn
  => \E dbok \in BOOLEAN :
       ActedOn(FirstHonorable(IdentifyCustomer(last_turn.before, last_turn.e, dbok).ctx,
                              last_turn.e))

GreetingTurn == IsTurn /\ "is_greeting" \in last_turn.e.flags

FrameFields ==
  {"filters", "asked_questions", "search_performed", "results_shown", "last_shown_cars",
   "last_shown_target_price", "last_shown_target_model", "last_shown_target_brand"}
    \cup CustomerFields

\* the turn acted on a greeting or a farewell
GreetedOrParted ==
  /\ IsTurn /\ last_turn.route = "immediate"
  /\ last_turn.requested \in {"greeting", "farewell"}

\* C29 as stated: a turn flagged is_greeting is answered with the canned
\* greeting only when every filter is null, customer_id is null and the
\* personalized greeting was not done; otherwise the turn continues through
\* the normal flow.  A turn that acted on a greeting or a farewell leaves
\* filters, asked_questions, search flags, anchor and customer fields as
\* they were.
C29_GreetingOnlyOnEmptyContext ==
  /\ GreetingTurn
       => IF last_turn.response = CannedGreeting
          THEN \E dbok \in BOOLEAN :
                 GreetingHonorable(IdentifyCustomer(last_turn.before, last_turn.e, dbok).ctx)
          ELSE last_turn.route = "normal"
  /\ GreetedOrParted
       => \A c \in FrameFields : current_context[c] = last_turn.before[c]

\* a turn that reaches the immediate intents
ReachesIntents ==
  /\ IsTurn /\ ~ExtractionRaises(last_turn.e)
  /\ ~last_turn.before.awaiting_model_confirmation
  /\ "is_similarity_request" \notin last_turn.e.flags

\* C29 amended: of the turns that reach the immediate intents, one flagged
\* is_greeting (and neither is_reset nor is_farewell) is answered with the
\* canned greeting exactly when, in the context the customer identification
\* left, every filter is null, customer_id is null and the personalized
\* greeting was not done; otherwise the flag is ignored and the turn lists
\* the catalog or continues through the normal flow.  A turn that acted on
\* a greeting or a farewell leaves that context as it is but for
\* last_response: filters, asked_questions, search flags and anchor are
\* those of the start of the turn, and so are the customer fields unless the
\* turn brought a phone number to identify.
C29_GreetingOnlyOnEmptyContextAfterIdentification ==
  /\ (GreetingTurn /\ ReachesIntents /\ last_turn.e.flags \cap {"is_reset", "is_farewell"} = {})
       => \E dbok \in BOOLEAN :
            LET idc == IdentifyCustomer(last_turn.before, last_turn.e, dbok).ctx
            IN IF GreetingHonorable(idc)
               THEN /\ last_turn.response = CannedGreeting
                    /\ last_turn.route = "immediate" /\ last_turn.requested = "greeting"
                    /\ current_context = [idc EXCEPT !.last_response = CannedGreeting]
               ELSE /\ last_turn.response # CannedGreeting
                    /\ \/ last_turn.route = "normal"
                       \/ /\ last_turn.requested = "list_all"
                          /\ "is_list_all" \in last_turn.e.flags
                          /\ idc.initial_personalized_greeting_done
  /\ GreetedOrParted
       => /\ \E dbok \in BOOLEAN :
               current_context =
                 [IdentifyCustomer(last_turn.before, last_turn.e, dbok).ctx
                    EXCEPT !.last_response = last_turn.response]
          /\ \A c \in FrameFields \ CustomerFields : current_context[c] = last_turn.before[c]
          /\ ~NeedsIdentification(last_turn.before, last_turn.e)
               => \A c \in CustomerFields : current_context[c] = last_turn.before[c]
          /\ last_turn.lookups \in {<< >>, << Lookup("find_customer", EmptyFilters) >>}

\* a greeting was refused because a filter was set, and the normal flow ran
C29_Witness_GreetingIgnoredWithFilter ==
  /\ GreetingTurn /\ ReachesIntents
  /\ last_turn.e.flags = {"is_greeting"}
  /\ ~last_turn.before.initial_personalized_greeting_done
  /\ last_turn.before.customer_id = NULL
  /\ SetFilters(last_turn.before) # {}
  /\ last_turn.route = "normal"

\* a farewell was said after results were shown: filters and anchor stayed
C29_Witness_FarewellKeepsAnchor ==
  /\ GreetedOrParted /\ last_turn.requested = "farewell"
  /\ AnchorSet(current_context) /\ current_context.results_shown
  /\ SetFilters(current_context) # {}

\* an honored greeting came with a brand, which was not stored
C29_Witness_GreetingWithBrand ==
  /\ GreetedOrParted /\ last_turn.requested = "greeting"
  /\ last_turn.e.f["brand"] # NULL
  /\ current_context.filters = EmptyFilters

\* a turn in which the search branch of _execute_action ran
SearchTurn == IsTurn /\ last_turn.executed = << "search" >>

NoAnchor(ctx) ==
  /\ ctx.last_shown_cars = NULL /\ ctx.last_shown_target_price = NULL
  /\ ctx.last_shown_target_model = NULL /\ ctx.last_shown_target_brand = NULL

\* the context shows the cars found, anchored at the first of them
ShowsResults(ctx, found) ==
  /\ ctx.results_shown
  /\ ctx.last_shown_cars = found
  /\ ctx.last_shown_target_price = Some(Catalog[found[1]].price)
  /\ ctx.last_shown_target_model = Some(Catalog[found[1]].model)
  /\ ctx.last_shown_target_brand = Some(Catalog[found[1]].brand)
  /\ \A i \in 1..Len(found) : CarMatches(found[i], ctx.filters)
  /\ \A i \in 1..Len(found) : Catalog[found[1]].price <= Catalog[found[i]].price

\* C30: the search action looks the catalog up with the filters of the
\* context (the non-null ones are the criteria) and sets search_performed;
\* if the lookup returns cars, results_shown is true and the anchor price,
\* model and brand are those of the first car returned; if it returns none,
\* also because the catalog failed, results_shown is false and the anchor is
\* empty.  The filters themselves are not changed.
C30_SearchAnchorsFirstResult ==
  SearchTurn
  => /\ last_turn.lookups[Len(last_turn.lookups)] = Lookup("search", current_context.filters)
     /\ last_turn.upd.called => current_context.filters = last_turn.upd.after.filters
     /\ current_context.search_performed
     /\ \E dbok \in BOOLEAN :
          LET found == find_cars_by_criteria(current_context.filters, SearchLimit, dbok)
          IN IF found # << >>
             THEN /\ ShowsResults(current_context, found)
                  /\ last_turn.response = Resp("show_results", "")
             ELSE /\ ~current_context.results_shown /\ NoAnchor(current_context)
                  /\ last_turn.response = Resp("no_results", "")
     /\ find_cars_by_criteria(current_context.filters, SearchLimit, TRUE) = << >>
          => ~current_context.results_shown

\* a search returned several cars and anchored the first of them
C30_Witness_SeveralResults ==
  /\ SearchTurn /\ current_context.results_shown
  /\ Len(current_context.last_shown_cars) >= 2
  /\ Cardinality(SetFilters(current_context)) >= 2

\* the catalog failed on a search that has matching cars
C30_Witness_CatalogFailure ==
  /\ SearchTurn /\ ~current_context.results_shown /\ NoAnchor(current_context)
  /\ find_cars_by_criteria(current_context.filters, SearchLimit, TRUE) # << >>
  /\ AnchorSet(last_turn.before)

\* a normal-flow turn whose action was ask
AskTurn == NormalFlowTurn /\ last_turn.executed = << "ask" >>

\* the context the selector handed to the ask action
AskContext ==
  BeforeAction(last_turn.upd.after, memory, last_turn.e, last_turn.updated).ctx

QuestionOrder ==
  << "brand", "engine_type", "body_type", "price_range", "transmission",
     "year_range", "model" >>

QuestionFlag ==
  [ brand |-> "asked_brand", engine_type |-> "asked_engine", body_type |-> "asked_body",
    price_range |-> "asked_price", transmission |-> "asked_transmission",
    year_range |-> "asked_year", model |-> "asked_model" ]

\* the field of question number i is unset in ctx
FieldOpen(ctx, i) ==
  IF QuestionOrder[i] = "price_range"
  THEN ctx.filters["min_price"] = NULL /\ ctx.filters["max_price"] = NULL
  ELSE IF QuestionOrder[i] = "year_range"
  THEN ctx.filters["min_year"] = NULL /\ ctx.filters["max_year"] = NULL
  ELSE IF QuestionOrder[i] = "model"
  THEN ctx.filters["brand"] # NULL /\ ctx.filters["model"] = NULL
  ELSE ctx.filters[QuestionOrder[i]] = NULL

\* question number i may be posed on ctx
Poseable(ctx, i) ==
  QuestionFlag[QuestionOrder[i]] \notin ctx.asked_questions /\ FieldOpen(ctx, i)

\* the question the response of the turn poses, as its number in the order
PosedQuestion(i) ==
  /\ last_turn.response[1] \in AskTemplates
  /\ last_turn.response[2] = QuestionOrder[i]

\* C31: the ask action emits the first question, in the order brand, engine
\* type, body type, price range, transmission, year range, model, whose flag
\* is not in asked_questions and whose field is unset (a range: both bounds
\* unset; model: brand set and model unset), and adds that question's flag
\* to asked_questions; when there is no such question it emits an offer to
\* search if the criteria are sufficient and a generic prompt otherwise, and
\* asked_questions stays as it was.  The filters are not touched.
C31_AskPosesFirstOpenQuestion ==
  AskTurn
  => /\ current_context.filters = AskContext.filters
     /\ IF \E i \in 1..Len(QuestionOrder) : Poseable(AskContext, i)
        THEN \E i \in 1..Len(QuestionOrder) :
               /\ Poseable(AskContext, i)
               /\ \A j \in 1..(i - 1) : ~Poseable(AskContext, j)
               /\ PosedQuestion(i)
               /\ current_context.asked_questions
                    = AskContext.asked_questions \cup {QuestionFlag[QuestionOrder[i]]}
               /\ current_context.last_question_key = Some(QuestionOrder[i])
        ELSE /\ last_turn.response
                  = IF should_search(AskContext) THEN Resp("offer_search_or_reset", "")
                    ELSE Resp("generic_fallback_more", "")
             /\ current_context.asked_questions = AskContext.asked_questions
             /\ current_context.last_question_key = NULL

\* a question after the first is posed while an earlier one stays open
\* because the user declined it
C31_Witness_DeclinedQuestionSkipped ==
  /\ AskTurn
  /\ \E i \in 2..Len(QuestionOrder) :
       /\ PosedQuestion(i)
       /\ \E j \in 1..(i - 1) : FieldOpen(AskContext, j)
  /\ AskContext.asked_questions # {}

\* the model question is posed: a brand is set and the six questions before
\* it are answered or asked
C31_Witness_ModelQuestion ==
  AskTurn /\ PosedQuestion(7)

\* no question is left: the turn offers to search
C31_Witness_OfferToSearch ==
  AskTurn /\ last_turn.response = Resp("offer_search_or_reset", "")

\* every question was declined and no filter is set: the generic prompt
C31_Witness_GenericPrompt ==
  /\ AskTurn /\ last_turn.response = Resp("generic_fallback_more", "")
  /\ AskContext.filters = EmptyFilters

\* the templates whose second part is the question _get_next_question chose
PosingTemplates == AskTemplates \cup {"confirmation_acknowledge_ask_next"}

\* the question a response poses to the user, if it poses one
QuestionPosedBy(response) ==
  IF Len(response) = 2 /\ response[1] \in PosingTemplates /\ response[2] \in QuestionKeys
  THEN {response[2]} ELSE {}

\* the brand filter is not the one the turn began with
BrandChangedInTurn ==
  current_context.filters["brand"] # last_turn.before.filters["brand"]

\* the call reset the context: a reset intent, a refusal of shown results,
\* or a proactive start
ContextWasReset == last_turn.reset \/ IsProactiveStart

\* C32: at the end of every turn asked_questions holds the flag of every
\* question posed to the user since the last reset (asked_model excepted
\* after a brand change), the next question posed in the response to a
\* 'yes' model confirmation included.  Stated over the turn and the one
\* before it: the question this turn's response poses is flagged, and the
\* question the previous response posed is still flagged unless this turn
\* reset the context or it is the model question and the brand changed.
C32_PosedQuestionsAreFlagged ==
  last_turn.op # "init"
  => /\ \A q \in QuestionPosedBy(last_turn.response) :
          AskedFlag(q) \in current_context.asked_questions
     /\ \A q \in QuestionPosedBy(last_turn.prev.response) :
          (~ContextWasReset /\ ~(q = "model" /\ BrandChangedInTurn))
            => AskedFlag(q) \in current_context.asked_questions

\* the similarity anchor of a context
AnchorOf(ctx) ==
  << ctx.last_shown_cars, ctx.last_shown_target_price,
     ctx.last_shown_target_model, ctx.last_shown_target_brand >>

\* a call in which _execute_action ran an action
ActionRan == last_turn.op # "init" /\ last_turn.executed # << >>

\* C33: every executed action other than find_similar empties the anchor
\* (last_shown_cars and the anchor price, model and brand), and only search
\* sets it again; find_similar leaves the anchor as it found it, so repeated
\* similarity requests compare against the same anchor.
C33_OnlyFindSimilarKeepsAnchor ==
  ActionRan
  => IF last_turn.executed = << "find_similar" >>
     THEN AnchorOf(current_context) = AnchorOf(last_turn.before)
     ELSE IF last_turn.executed = << "search" >>
     THEN \/ NoAnchor(current_context)
          \/ /\ current_context.last_shown_cars # << >>
             /\ ShowsResults(current_context, current_context.last_shown_cars)
     ELSE NoAnchor(current_context)

\* two similarity requests in a row, answered against the same anchor
C33_Witness_RepeatedSimilarity ==
  /\ IsTurn /\ last_turn.executed = << "find_similar" >>
  /\ last_turn.prev.executed = << "find_similar" >>
  /\ AnchorSet(current_context)
  /\ "find_similar" \in Ops(last_turn.lookups)

\* an anchor was set and the wait action emptied it
C33_Witness_WaitEmptiesAnchor ==
  /\ IsTurn /\ last_turn.executed = << "wait" >>
  /\ AnchorSet(last_turn.before) /\ ~last_turn.reset
  /\ NoAnchor(current_context)

\* a list of the whole catalog shows results without an anchor
C33_Witness_ListAllSetsNoAnchor ==
  /\ IsTurn /\ last_turn.executed = << "list_all" >>
  /\ AnchorSet(last_turn.before)
  /\ current_context.results_shown /\ NoAnchor(current_context)

\* a turn that reaches the customer identification with a valid phone number
\* other than the one of the context
NewPhoneTurn ==
  /\ ReachesIntents
  /\ last_turn.e.has_phone /\ Truthy(last_turn.e.phone)
  /\ last_turn.e.phone # last_turn.before.customer_phone

\* the leads stored under the phone number of the entities
LeadsOfPhone == {i \in 1..Len(Leads) : Some(Leads[i].phone) = last_turn.e.phone}

\* the context holds lead number i as its customer
HoldsLead(i) ==
  /\ current_context.customer_id = Some(Leads[i].id)
  /\ current_context.customer_phone = Some(Leads[i].phone)
  /\ current_context.customer_first_name \in {Some(Leads[i].first_name), last_turn.e.first_name}
  /\ current_context.customer_desired_car = Some(Leads[i].desired_car_info)

HoldsPhoneOnly ==
  /\ current_context.customer_id = NULL
  /\ current_context.customer_phone = last_turn.e.phone
  /\ current_context.customer_desired_car = NULL
  /\ current_context.customer_first_name
       = IF Truthy(last_turn.e.first_name) THEN last_turn.e.first_name
         ELSE IF last_turn.before.customer_id # NULL THEN NULL
         ELSE last_turn.before.customer_first_name

C34_Witness_KnownCustomerForgotten ==
  /\ NewPhoneTurn /\ ~last_turn.reset
  /\ last_turn.before.customer_id # NULL
  /\ LeadsOfPhone = {} /\ HoldsPhoneOnly
  /\ current_context.customer_first_name = NULL

\* a first name given in the conversation outlives a new phone number
C34_Witness_NameWithoutIdKept ==
  /\ NewPhoneTurn /\ ~last_turn.reset
  /\ last_turn.before.customer_id = NULL
  /\ last_turn.before.customer_first_name # NULL
  /\ last_turn.e.first_name = NULL
  /\ current_context.customer_first_name = last_turn.before.customer_first_name

\* the filters a turn may overwrite but never clear
LastingFilters == EntityFilterKeys \ {"model"}

\* the turn answered yes to a model confirmation, which adopts the brand of
\* the confirmed car
BrandConfirmed ==
  /\ last_turn.executed = << "handle_model_confirmation" >>
  /\ last_turn.e.confirmation = Some("yes")

\* C35: no turn changes a set filter other than model to null unless it
\* resets the whole context: brand, engine_type, body_type, transmission and
\* the price and year bounds, once set, are only overwritten by a new
\* non-null value or cleared by a full reset; in the context update,
\* entities that omit such a field leave it as it was.
C35_SetFiltersAreOnlyOverwritten ==
  last_turn.op # "init"
  => /\ ~ContextWasReset
        => \A k \in LastingFilters :
             /\ last_turn.before.filters[k] # NULL => current_context.filters[k] # NULL
             /\ current_context.filters[k] # last_turn.before.filters[k]
                  => \/ current_context.filters[k] = last_turn.e.f[k]
                     \/ k = "brand" /\ BrandConfirmed
     /\ last_turn.upd.called
        => \A k \in LastingFilters :
             last_turn.e.f[k] = NULL
               => last_turn.upd.after.filters[k] = last_turn.upd.before.filters[k]

\* a set brand is overwritten by another while a second filter, which the
\* entities omit, stays
C35_Witness_BrandOverwrittenOtherKept ==
  /\ IsTurn /\ ~ContextWasReset /\ last_turn.upd.called
  /\ last_turn.before.filters["brand"] # NULL
  /\ current_context.filters["brand"] \notin {NULL, last_turn.before.filters["brand"]}
  /\ \E k \in LastingFilters \ {"brand"} :
       /\ last_turn.e.f[k] = NULL
       /\ current_context.filters[k] # NULL
       /\ current_context.filters[k] = last_turn.before.filters[k]

\* the model is cleared by a refused confirmation while another filter stays
C35_Witness_ModelClearedOtherKept ==
  /\ IsTurn /\ ~ContextWasReset
  /\ last_turn.before.filters["model"] # NULL /\ current_context.filters["model"] = NULL
  /\ \E k \in LastingFilters : current_context.filters[k] # NULL

\* the context holds a non-empty list of candidate cars
HoldsCandidates(ctx) ==
  /\ ctx.potential_model_matches # NULL
  /\ Len(ctx.potential_model_matches) >= 1
  /\ \A i \in 1..Len(ctx.potential_model_matches) :
       ctx.potential_model_matches[i] \in 1..Len(Catalog)

\* C36: at every turn boundary awaiting_model_confirmation is true if and
\* only if potential_model_matches is a non-empty candidate list, and is
\* null otherwise: the two are set and cleared together.
C36_AwaitingIffCandidates ==
  /\ current_context.awaiting_model_confirmation <=> HoldsCandidates(current_context)
  /\ ~current_context.awaiting_model_confirmation
        => current_context.potential_model_matches = NULL

\* the clarification stored two candidates and awaits the answer
C36_Witness_AwaitingWithCandidates ==
  /\ IsTurn /\ last_turn.executed = << "clarify_model" >>
  /\ current_context.awaiting_model_confirmation
  /\ Len(current_context.potential_model_matches) = 2

\* the answer was handled: both are cleared
C36_Witness_ClearedByAnswer ==
  /\ IsTurn /\ last_turn.executed = << "handle_model_confirmation" >>
  /\ ~last_turn.raised
  /\ HoldsCandidates(last_turn.before)
  /\ ~current_context.awaiting_model_confirmation
  /\ current_context.potential_model_matches = NULL

\* a model without a brand, outside the clarification sub-protocol
StrayModel(ctx) == ModelWithoutBrand(ctx) /\ ~ctx.awaiting_model_confirmation

\* C37 as stated: at every turn boundary reached without an internal
\* failure, the proactive start included, a model without a brand is
\* awaiting confirmation.
C37_ModelWithoutBrandIsAwaiting ==
  (last_turn.op # "init" /\ ~last_turn.raised) => ~StrayModel(current_context)

\* the turn skipped the normal flow and ran no clarification: a similarity
\* request or an immediate intent
SkippedNormalFlow == IsTurn /\ last_turn.route \in {"similarity", "immediate"}

\* C37, amended: a model without a brand is found outside the awaiting
\* state only at the end of a turn that failed, or of a similarity or
\* immediate-intent turn that began in that condition.
C37_StrayModelOnlyAfterFailure ==
  (last_turn.op # "init" /\ StrayModel(current_context))
  => \/ last_turn.raised
     \/ SkippedNormalFlow /\ StrayModel(last_turn.before)
            /\ current_context.filters = last_turn.before.filters

\* the turns that set a model without a brand end awaiting or without the model
C37_Witness_ModelAloneAwaits ==
  /\ IsTurn /\ ~last_turn.raised
  /\ last_turn.e.f["model"] # NULL /\ last_turn.upd.called
  /\ ModelWithoutBrand(current_context)
  /\ current_context.awaiting_model_confirmation

\* a failed turn left the model, and a farewell kept it
C37_Witness_StrayModelSurvives ==
  /\ SkippedNormalFlow /\ ~last_turn.raised
  /\ StrayModel(current_context)

\* the lookups that can show cars
ShowingOps == {"search", "list_all", "find_similar"}

\* C38: in every reachable state results_shown implies search_performed;
\* results_shown becomes true only in a call that made a catalog lookup,
\* and a call that leaves search_performed false leaves results_shown false.
C38_ResultsShownImpliesSearchPerformed ==
  /\ current_context.results_shown => current_context.search_performed
  /\ (last_turn.op # "init" /\ current_context.results_shown
        /\ ~last_turn.before.results_shown)
     => Ops(last_turn.lookups) \cap ShowingOps # {}
  /\ (last_turn.op # "init" /\ last_turn.before.search_performed
        /\ ~current_context.search_performed)
     => ~current_context.results_shown

\* the whole list is shown from a context in which no search had run
C38_Witness_ListShown ==
  /\ IsTurn /\ last_turn.executed = << "list_all" >>
  /\ ~last_turn.before.search_performed
  /\ current_context.results_shown /\ current_context.search_performed

\* a search had shown results and a new filter value cleared both flags
C38_Witness_BothCleared ==
  /\ IsTurn /\ last_turn.upd.called
  /\ last_turn.upd.before.results_shown /\ last_turn.upd.before.search_performed
  /\ ~last_turn.upd.after.results_shown /\ ~last_turn.upd.after.search_performed

\* a search ran and found nothing
C38_Witness_SearchedNothingShown ==
  /\ last_turn.op # "init"
  /\ current_context.search_performed /\ ~current_context.results_shown

\* the state after a call of _extract_entities_llm
ExtractorCalled == parsed.fn = "_extract_entities_llm"

CurrentUserMessage == [role |-> "user", content |-> parsed.arg.user_message]

\* every content of the memory handed over is None or the empty string
OnlyEmptyContents(mem) ==
  \A i \in 1..Len(mem) : mem[i].content = NULL \/ mem[i].content = << "" >>

\* C39: the message list sent to the extractor is the system instruction,
\* then the stored memory if and only if the relevance gate returned true,
\* then the current user message; the gate returns false when the memory is
\* empty, the query is empty, the memory holds only empty contents, or the
\* scoring fails, and true only for a score above the threshold.
C39_MemorySuppliedIffGateTrue ==
  ExtractorCalled
  => /\ parsed.result.messages[1] = SystemPrompt
     /\ parsed.result.messages[Len(parsed.result.messages)] = CurrentUserMessage
     /\ IF parsed.result.is_relevant
        THEN /\ Len(parsed.result.messages) = Len(parsed.arg.memory) + 2
             /\ \A i \in 1..Len(parsed.arg.memory) :
                  parsed.result.messages[i + 1] = parsed.arg.memory[i]
        ELSE Len(parsed.result.messages) = 2
     /\ (\/ parsed.arg.memory = << >>
         \/ parsed.arg.user_message = << "" >>
         \/ OnlyEmptyContents(parsed.arg.memory)
         \/ parsed.arg.scoring = "error")
        => ~parsed.result.is_relevant
     /\ parsed.result.is_relevant => parsed.arg.scoring = "above"

\* a memory of two messages is supplied between the instruction and the query
C39_Witness_MemorySupplied ==
  /\ ExtractorCalled /\ parsed.result.is_relevant
  /\ Len(parsed.arg.memory) = 2 /\ Len(parsed.result.messages) = 4

\* the scoring failed on a memory with text: the memory is withheld
C39_Witness_ScoringFailed ==
  /\ ExtractorCalled /\ parsed.arg.scoring = "error"
  /\ parsed.arg.user_message = << "a" >>
  /\ \E i \in 1..Len(parsed.arg.memory) : parsed.arg.memory[i].content = << "a" >>
  /\ Len(parsed.result.messages) = 2

\* a memory holding only empty contents is withheld although the score is high
C39_Witness_OnlyEmptyContents ==
  /\ ExtractorCalled /\ parsed.arg.scoring = "above"
  /\ parsed.arg.user_message = << "a" >>
  /\ parsed.arg.memory # << >> /\ OnlyEmptyContents(parsed.arg.memory)
  /\ ~parsed.result.is_relevant

\* C40: in every process_message turn the user's message is appended to the
\* memory before the relevance gate is consulted, so the memory the gate
\* scores is never empty and its last entry is the current query; when the
\* memory is supplied to the extractor the current user message stands
\* twice in the message list, as the end of the memory and as the query.
C40_GateScoresMemoryEndingInQuery ==
  (IsTurn /\ ExtractorCalled)
  => /\ parsed.arg.user_message = last_turn.text
     /\ parsed.result.consulted
     /\ parsed.arg.memory # << >>
     /\ parsed.arg.memory[Len(parsed.arg.memory)] = CurrentUserMessage
     /\ Len(parsed.arg.memory) <= AgentMaxMessages
     /\ parsed.result.is_relevant
        => /\ Len(parsed.result.messages) >= 3
           /\ parsed.result.messages[Len(parsed.result.messages)] = CurrentUserMessage
           /\ parsed.result.messages[Len(parsed.result.messages) - 1] = CurrentUserMessage
           /\ Cardinality({i \in 1..Len(parsed.result.messages) :
                             parsed.result.messages[i] = CurrentUserMessage}) = 2

\* the first message of a conversation: the memory scored is the query alone
C40_Witness_FirstMessageScoredAgainstItself ==
  /\ IsTurn /\ ExtractorCalled /\ turns = 1
  /\ parsed.arg.memory = << CurrentUserMessage >>
  /\ parsed.result.is_relevant
  /\ parsed.result.messages = << SystemPrompt, CurrentUserMessage, CurrentUserMessage >>

\* the memory was full: the oldest message made room for the query
C40_Witness_FullMemory ==
  /\ IsTurn /\ ExtractorCalled /\ parsed.result.is_relevant
  /\ Len(parsed.arg.memory) = AgentMaxMessages
  /\ parsed.arg.memory[1].role = "assistant"

====
